---- MODULE Spec2Model ----
(***************************************************************************)
(* Persistence and authorization core of the homeserver (src/src/data.rs)  *)
(* and the federation access check (src/src/api/server/utils.rs).          *)
(*                                                                         *)
(* Keys of the ordered store are byte strings, modelled as sequences of    *)
(* numbers 0..255 compared lexicographically, exactly as sled compares     *)
(* them.  Option<T> is modelled as a sequence of length 0 (None) or 1      *)
(* (Some(x)).                                                              *)
(***************************************************************************)
EXTENDS Integers, Sequences, FiniteSets, TLC

\* ------------------------------------------------------------------ bounds
\* Number of ordinals the model lets the operations draw from the counter.
MaxOps == 3

\* ------------------------------------------------------- program constants
\* 0xff, the delimiter byte pushed between the parts of every composite key.
Delim == 255
\* mem::size_of::<u64>(), the width of an ordinal in a key.
U64Bytes == 8
\* A `max` for pdus_until that no log of the model reaches (stands for an
\* unbounded u32 limit).
UnboundedMax == 2 ^ 30

\* ------------------------------------------------------------------ Option
None == <<>>
Some(x) == <<x>>
IsSome(o) == o # <<>>
Unwrap(o) == o[1]

\* ------------------------------------------------------------- identifiers
\* UTF-8 bytes of the identifiers.  "!r" is a proper prefix of "!rx".
RoomR == <<33, 114>>
RoomRx == <<33, 114, 120>>
Rooms == {RoomR, RoomRx}
UserA == <<64, 97>>
UserB == <<64, 98>>
Users == {UserA, UserB}

RoomMember == "m.room.member"
RoomPowerLevels == "m.room.power_levels"
RoomMessage == "m.room.message"

\* EventType::to_string() as bytes; the names are shortened to their
\* distinguishing letters (injective, and free of 0xff like every UTF-8 string).
KindBytes(kind) ==
    CASE kind = RoomMember -> <<109, 101>>
      [] kind = RoomPowerLevels -> <<112, 108>>
      [] OTHER -> <<109, 115>>

\* ------------------------------------------------------------ byte strings
\* Lexicographic order on byte strings (the order of the store's keys).
RECURSIVE LessFrom(_, _, _)
LessFrom(a, b, i) ==
    IF i > Len(b) THEN FALSE
    ELSE IF i > Len(a) THEN TRUE
    ELSE IF a[i] = b[i] THEN LessFrom(a, b, i + 1)
    ELSE a[i] < b[i]

Less(a, b) == LessFrom(a, b, 1)

starts_with(key, prefix) ==
    /\ Len(key) >= Len(prefix)
    /\ SubSeq(key, 1, Len(prefix)) = prefix

\* u64::to_be_bytes; the model's ordinals stay below 2^24, so the five high
\* bytes are 0.
to_be_bytes(n) ==
    [i \in 1..U64Bytes |->
        IF i <= U64Bytes - 3 THEN 0 ELSE (n \div (256 ^ (U64Bytes - i))) % 256]

\* utils::u64_from_bytes on an 8-byte big-endian slice.
u64_from_bytes(b) ==
    b[U64Bytes - 2] * 65536 + b[U64Bytes - 1] * 256 + b[U64Bytes]

\* slice.split(|b| b == 0xff): the segments between delimiter bytes, in order.
RECURSIVE SplitFrom(_, _, _)
SplitFrom(s, i, cur) ==
    IF i > Len(s) THEN <<cur>>
    ELSE IF s[i] = Delim THEN <<cur>> \o SplitFrom(s, i + 1, <<>>)
    ELSE SplitFrom(s, i + 1, Append(cur, s[i]))

split(s) == SplitFrom(s, 1, <<>>)

\* slice.rsplit(|b| b == 0xff).nth(n): the n-th segment counted from the right.
rsplit_nth(s, n) ==
    LET segs == split(s)
    IN  IF n < Len(segs) THEN Some(segs[Len(segs) - n]) ELSE None

\* slice.rsplitn(2, |b| b == 0xff).next(): everything after the last delimiter.
rsplitn2_first(s) ==
    LET segs == split(s) IN segs[Len(segs)]

\* ------------------------------------------------------ ordered store (sled)
\* A tree is a function from keys to values.
EmptyTree == <<>>

tree_insert(tree, key, value) ==
    [k \in (DOMAIN tree) \cup {key} |-> IF k = key THEN value ELSE tree[k]]

tree_remove(tree, key) ==
    [k \in (DOMAIN tree) \ {key} |-> tree[k]]

tree_get(tree, key) ==
    IF key \in DOMAIN tree THEN Some(tree[key]) ELSE None

MinKey(S) == CHOOSE x \in S : \A y \in S : y = x \/ Less(x, y)
MaxKey(S) == CHOOSE x \in S : \A y \in S : y = x \/ Less(y, x)

\* Tree::get_gt: the first key strictly greater than `key`.
get_gt(tree, key) ==
    LET S == {k \in DOMAIN tree : Less(key, k)}
    IN  IF S = {} THEN None ELSE Some(MinKey(S))

\* Tree::get_lt: the last key strictly less than `key`.
get_lt(tree, key) ==
    LET S == {k \in DOMAIN tree : Less(k, key)}
    IN  IF S = {} THEN None ELSE Some(MaxKey(S))

RECURSIVE SortKeys(_)
SortKeys(S) ==
    IF S = {} THEN <<>>
    ELSE LET m == MinKey(S) IN <<m>> \o SortKeys(S \ {m})

\* Tree::scan_prefix: the keys starting with `prefix`, in key order.
scan_prefix(tree, prefix) ==
    SortKeys({k \in DOMAIN tree : starts_with(k, prefix)})

\* ---------------------------------------------------------------- database
\* Data.db: one ordered tree per field of Database.  roomid_pduleaves is a
\* multi-value tree (id -> list of values).
VARIABLES db, now, last, ac, calls, drawn, serialized, appended, raced

\* The calls in flight, the ordinals drawn by them so far and, per
\* (room, user), the payload of the receipt update that entered last; per
\* room, the ids of the events appended one store operation at a time, in
\* the order the calls computed them, and the rooms in which two such appends
\* were in flight at once.
race == <<calls, drawn, serialized, appended, raced>>

vars == <<db, now, last, ac, calls, drawn, serialized, appended, raced>>

\* The counter values a database can hold when the modelled run begins: a
\* fresh one, and one whose next ordinals have 0xff as their low byte and
\* then carry into the next byte.
StartCounters == {0, 254}

EmptyDb ==
    [global |-> 0,
     pduid_pdu |-> EmptyTree,
     eventid_pduid |-> EmptyTree,
     roomstateid_pdu |-> EmptyTree,
     roomid_pduleaves |-> [r \in Rooms |-> <<>>],
     roomuserid_lastread |-> EmptyTree,
     roomlatestid_roomlatest |-> EmptyTree,
     roomactiveid_roomactive |-> EmptyTree,
     roomuserdataid_accountdata |-> EmptyTree,
     userid_joinroomids |-> [id \in Rooms \cup Users |-> <<>>],
     roomid_joinuserids |-> [id \in Rooms \cup Users |-> <<>>],
     userid_inviteroomids |-> [id \in Rooms \cup Users |-> <<>>],
     roomid_inviteuserids |-> [id \in Rooms \cup Users |-> <<>>],
     userid_leftroomids |-> [id \in Rooms \cup Users |-> <<>>]]

\* MultiValue::get_iter(id).values(): the values stored under `id`, in
\* insertion order.
multi_get_iter(mv, id) == mv[id]

\* MultiValue::clear(id): removes every value stored under `id`.
multi_clear(mv, id) == [mv EXCEPT ![id] = <<>>]

\* MultiValue::add(id, value): stores one more value under `id`.
multi_add(mv, id, value) == [mv EXCEPT ![id] = Append(@, value)]

\* global.update_and_fetch(COUNTER, utils::increment): the new counter value.
increment(old) == old + 1

\* ----------------------------------------------------------- event lookups
\* The room's key prefix: room id bytes followed by the delimiter.
RoomPrefix(room_id) == Append(room_id, Delim)

\* Mutant: the ordinal is sliced one byte too early.
pdu_get_count_shifted(d, event_id) ==
    LET pdu_id == tree_get(d.eventid_pduid, event_id)
    IN  IF IsSome(pdu_id)
        THEN Some(u64_from_bytes(
                SubSeq(Unwrap(pdu_id),
                       Len(Unwrap(pdu_id)) - U64Bytes,
                       Len(Unwrap(pdu_id)) - 1)))
        ELSE None

pdu_get_count(d, event_id) ==
    LET pdu_id == tree_get(d.eventid_pduid, event_id)
    IN  IF IsSome(pdu_id)
        THEN Some(u64_from_bytes(
                SubSeq(Unwrap(pdu_id),
                       Len(Unwrap(pdu_id)) - U64Bytes + 1,
                       Len(Unwrap(pdu_id)))))
        ELSE None

pdu_get(d, event_id) ==
    LET pdu_id == tree_get(d.eventid_pduid, event_id)
    IN  IF IsSome(pdu_id) THEN Some(d.pduid_pdu[Unwrap(pdu_id)]) ELSE None

\* Mutant: no leaf is found.
pdu_leaves_get_none(d, room_id) == <<>>

pdu_leaves_get(d, room_id) == multi_get_iter(d.roomid_pduleaves, room_id)

\* Mutant: the old leaves are not cleared.
pdu_leaves_replace_noclear(d, room_id, event_id) ==
    [d EXCEPT !.roomid_pduleaves = multi_add(d.roomid_pduleaves, room_id, event_id)]

pdu_leaves_replace(d, room_id, event_id) ==
    [d EXCEPT !.roomid_pduleaves =
        multi_add(multi_clear(d.roomid_pduleaves, room_id), room_id, event_id)]

\* Mutant: any key after the prefix counts, whatever room it belongs to.
room_exists_noprefix(d, room_id) ==
    IsSome(get_gt(d.pduid_pdu, RoomPrefix(room_id)))

room_exists(d, room_id) ==
    LET prefix == RoomPrefix(room_id)
        found == get_gt(d.pduid_pdu, prefix)
    IN  IF IsSome(found) THEN starts_with(Unwrap(found), prefix) ELSE FALSE

\* HashMap::insert for every value of the scan, in key order: a later entry
\* with the same (kind, state_key) replaces an earlier one.
RECURSIVE StateFold(_, _, _, _)
StateFold(tree, keys, i, hashmap) ==
    IF i > Len(keys) THEN hashmap
    ELSE LET pdu == tree[keys[i]]
             k == <<pdu.kind, Unwrap(pdu.state_key)>>
         IN  StateFold(tree, keys, i + 1,
                 [x \in (DOMAIN hashmap) \cup {k} |->
                     IF x = k THEN pdu ELSE hashmap[x]])

room_state(d, room_id) ==
    StateFold(d.roomstateid_pdu, scan_prefix(d.roomstateid_pdu, room_id), 1, <<>>)

\* Mutant: an existing cursor is kept.
room_read_set_first_wins(d, room_id, user_id, event_id) ==
    LET key == RoomPrefix(room_id) \o user_id
        count == pdu_get_count(d, event_id)
    IN  IF IsSome(count)
        THEN [db |-> IF key \in DOMAIN d.roomuserid_lastread THEN d
                     ELSE [d EXCEPT !.roomuserid_lastread =
                             tree_insert(@, key, to_be_bytes(Unwrap(count)))],
              ret |-> Some(TRUE)]
        ELSE [db |-> d, ret |-> None]

room_read_set(d, room_id, user_id, event_id) ==
    LET key == RoomPrefix(room_id) \o user_id
        count == pdu_get_count(d, event_id)
    IN  IF IsSome(count)
        THEN [db |-> [d EXCEPT !.roomuserid_lastread =
                        tree_insert(@, key, to_be_bytes(Unwrap(count)))],
              ret |-> Some(TRUE)]
        ELSE [db |-> d, ret |-> None]

room_read_get(d, room_id, user_id) ==
    LET v == tree_get(d.roomuserid_lastread, RoomPrefix(room_id) \o user_id)
    IN  IF IsSome(v) THEN Some(u64_from_bytes(Unwrap(v))) ELSE None

last_pdu_index(d) == d.global

\* ------------------------------------------------------------- pdu_append
\* The sender's effective power level: the per-user entry, else users_default.
PowerLevelOf(power_levels, sender) ==
    IF sender \in DOMAIN power_levels.users
    THEN power_levels.users[sender]
    ELSE power_levels.users_default

\* "Is the event authorized?": FALSE exactly where the code returns None.
is_authorized(d, room_id, sender, event_type, state_key) ==
    IF IsSome(state_key)
    THEN LET state == room_state(d, room_id)
         IN  IF <<RoomPowerLevels, <<>>>> \in DOMAIN state
             THEN LET power_levels == state[<<RoomPowerLevels, <<>>>>].content
                  IN  IF event_type = RoomMember THEN TRUE
                      ELSE IF PowerLevelOf(power_levels, sender) <= 0 THEN FALSE
                      ELSE TRUE
             ELSE TRUE
    ELSE TRUE

MaxOf(S) == CHOOSE m \in S : \A x \in S : x <= m

\* Mutant: the + 1 is applied only when there are prev_events.
next_depth_zero(d, prev_events) ==
    LET depths == {Unwrap(pdu_get(d, prev_events[i])).depth :
                        i \in 1..Len(prev_events)}
    IN  IF depths = {} THEN 0 ELSE MaxOf(depths) + 1

\* "Our depth is the maximum depth of prev_events + 1".
next_depth(d, prev_events) ==
    LET depths == {Unwrap(pdu_get(d, prev_events[i])).depth :
                        i \in 1..Len(prev_events)}
    IN  (IF depths = {} THEN 0 ELSE MaxOf(depths)) + 1

\* unsigned.unwrap_or_default(), plus prev_content when the room state holds
\* a PDU for the same (kind, state_key).
with_prev_content(d, room_id, event_type, unsigned, state_key) ==
    LET unsigned0 == IF IsSome(unsigned) THEN Unwrap(unsigned) ELSE <<>>
    IN  IF IsSome(state_key)
        THEN LET state == room_state(d, room_id)
                 k == <<event_type, Unwrap(state_key)>>
             IN  IF k \in DOMAIN state
                 THEN [x \in (DOMAIN unsigned0) \cup {"prev_content"} |->
                         IF x = "prev_content" THEN state[k].content
                         ELSE unsigned0[x]]
                 ELSE unsigned0
        ELSE unsigned0

\* ruma_signatures::reference_hash of the PDU as serialized with the
\* placeholder event id: a collision-free digest, so the digest is modelled
\* by the value it was computed from.
reference_hash(pdu) == [hash |-> pdu]

\* ruma_signatures::hash_and_sign_event: fills in the content hash and the
\* origin's signature, and changes no other field.
hash_and_sign_event(hostname, pdu) ==
    [pdu EXCEPT !.hashes = "sha256", !.signatures = {hostname}]

\* The outcomes of the identity capability (ruma_signatures) for one append:
\* both calls succeed, reference_hash fails, or hash_and_sign_event fails.
CryptoOk == "ok"
CryptoOutcomes == {CryptoOk, "hash_fails", "sign_fails"}

\* The PDU as constructed before it has an id, from the leaves read before:
\* depth and prev_content are computed from the store.
pdu_build_from(d, time, room_id, sender, event_type, content, unsigned, state_key, prev_events) ==
    [event_id |-> "$thiswillbefilledinlater",
     room_id |-> room_id,
     sender |-> sender,
     origin |-> "hostname",
     origin_server_ts |-> time,
     kind |-> event_type,
     content |-> content,
     state_key |-> state_key,
     prev_events |-> prev_events,
     depth |-> next_depth(d, prev_events),
     unsigned |-> with_prev_content(d, room_id, event_type, unsigned, state_key),
     hashes |-> "aaa",
     signatures |-> {}]

\* The PDU as constructed before it has an id: prev_events are the leaves of
\* the room.
pdu_build(d, time, room_id, sender, event_type, content, unsigned, state_key) ==
    pdu_build_from(d, time, room_id, sender, event_type, content, unsigned,
                   state_key, pdu_leaves_get(d, room_id))

\* "Generate event id": None where .expect() panics.
pdu_event_id(pdu, crypto) ==
    IF crypto = "hash_fails" THEN None ELSE Some(reference_hash(pdu))

\* hash_and_sign_event(..).unwrap(): None where it panics.
pdu_sign(pdu, crypto) ==
    IF crypto = "sign_fails" THEN None
    ELSE Some(hash_and_sign_event("hostname", pdu))

\* Mutant: the ordinal is computed but the counter is not written back, so
\* the next PDU of the room is stored under the same key.
pdu_persist_stale(d, pdu, pdu_json) ==
    LET d1 == pdu_leaves_replace(d, pdu.room_id, pdu.event_id)
        index == increment(d1.global)
        pdu_id == RoomPrefix(pdu.room_id) \o to_be_bytes(index)
        d3 == [d1 EXCEPT !.pduid_pdu = tree_insert(@, pdu_id, pdu_json)]
        d4 == [d3 EXCEPT !.eventid_pduid = tree_insert(@, pdu.event_id, pdu_id)]
        d5 == IF IsSome(pdu.state_key)
              THEN [d4 EXCEPT !.roomstateid_pdu =
                      tree_insert(@,
                          RoomPrefix(pdu.room_id) \o KindBytes(pdu.kind)
                              \o <<Delim>> \o Unwrap(pdu.state_key),
                          pdu_json)]
              ELSE d4
    IN  room_read_set(d5, pdu.room_id, pdu.sender, pdu.event_id).db

\* The writes of pdu_append, in the order of the code: the leaves, the
\* counter, the PDU, the event-id index, the state index, the read cursor.
\* `pdu` carries the event id, `pdu_json` is what is stored.
pdu_persist(d, pdu, pdu_json) ==
    LET d1 == pdu_leaves_replace(d, pdu.room_id, pdu.event_id)
        index == increment(d1.global)
        d2 == [d1 EXCEPT !.global = index]
        pdu_id == RoomPrefix(pdu.room_id) \o to_be_bytes(index)
        d3 == [d2 EXCEPT !.pduid_pdu = tree_insert(@, pdu_id, pdu_json)]
        d4 == [d3 EXCEPT !.eventid_pduid = tree_insert(@, pdu.event_id, pdu_id)]
        d5 == IF IsSome(pdu.state_key)
              THEN [d4 EXCEPT !.roomstateid_pdu =
                      tree_insert(@,
                          RoomPrefix(pdu.room_id) \o KindBytes(pdu.kind)
                              \o <<Delim>> \o Unwrap(pdu.state_key),
                          pdu_json)]
              ELSE d4
    IN  room_read_set(d5, pdu.room_id, pdu.sender, pdu.event_id).db

\* What the caller sees of a panic: no return value; the store is whatever
\* was written before.
Panicked(d) == [db |-> d, ret |-> None, panicked |-> TRUE]

\* Mutant: the PDU is persisted before it is signed.
pdu_append_sign_late(d, time, room_id, sender, event_type, content, unsigned, state_key, crypto) ==
    LET pdu0 == pdu_build(d, time, room_id, sender, event_type, content,
                          unsigned, state_key)
        event_id == pdu_event_id(pdu0, crypto)
    IN  IF event_id = None THEN Panicked(d)
        ELSE LET pdu == [pdu0 EXCEPT !.event_id = Unwrap(event_id)]
                 pdu_json == pdu_sign(pdu, crypto)
             IN  IF pdu_json = None THEN Panicked(pdu_persist(d, pdu, pdu))
                 ELSE [db |-> pdu_persist(d, pdu, Unwrap(pdu_json)),
                       ret |-> event_id, panicked |-> FALSE]

\* pdu_append once the event is authorized.
pdu_append_authorized(d, time, room_id, sender, event_type, content, unsigned, state_key, crypto) ==
    LET pdu0 == pdu_build(d, time, room_id, sender, event_type, content,
                          unsigned, state_key)
        event_id == pdu_event_id(pdu0, crypto)
    IN  IF event_id = None THEN Panicked(d)
        ELSE LET pdu == [pdu0 EXCEPT !.event_id = Unwrap(event_id)]
                 pdu_json == pdu_sign(pdu, crypto)
             IN  IF pdu_json = None THEN Panicked(d)
                 ELSE [db |-> pdu_persist(d, pdu, Unwrap(pdu_json)),
                       ret |-> event_id, panicked |-> FALSE]

\* pdu_append with the outcome of the identity capability as an input.
pdu_append_with(d, time, room_id, sender, event_type, content, unsigned, state_key, crypto) ==
    IF ~is_authorized(d, room_id, sender, event_type, state_key)
    THEN [db |-> d, ret |-> None, panicked |-> FALSE]
    ELSE pdu_append_authorized(d, time, room_id, sender, event_type, content,
                               unsigned, state_key, crypto)

\* Mutant: the authorization check runs after the ordinal was drawn.
pdu_append_late_check(d, time, room_id, sender, event_type, content, unsigned, state_key) ==
    IF ~is_authorized(d, room_id, sender, event_type, state_key)
    THEN [db |-> [d EXCEPT !.global = increment(@)], ret |-> None,
          panicked |-> FALSE]
    ELSE pdu_append_authorized(d, time, room_id, sender, event_type, content,
                               unsigned, state_key, CryptoOk)

\* pdu_append where hashing and signing succeed.
pdu_append(d, time, room_id, sender, event_type, content, unsigned, state_key) ==
    pdu_append_with(d, time, room_id, sender, event_type, content, unsigned,
                    state_key, CryptoOk)

\* -------------------------------------------------------------- range scans
\* The forward scan loop shared by the *_since readers: follows get_gt from
\* `current` while the key found starts with `prefix`, collecting the values.
RECURSIVE SinceLoop(_, _, _, _)
SinceLoop(tree, prefix, current, acc) ==
    LET found == get_gt(tree, current)
    IN  IF IsSome(found) /\ starts_with(Unwrap(found), prefix)
        THEN SinceLoop(tree, prefix, Unwrap(found), Append(acc, tree[Unwrap(found)]))
        ELSE acc

pdus_since_pduid(d, room_id, pdu_id) ==
    SinceLoop(d.pduid_pdu, RoomPrefix(room_id), pdu_id, <<>>)

\* Mutant: the scan starts at since + 1, as the receipt scans do.
pdus_since_plus_one(d, room_id, since) ==
    pdus_since_pduid(d, room_id, RoomPrefix(room_id) \o to_be_bytes(since + 1))

pdus_since(d, room_id, since) ==
    pdus_since_pduid(d, room_id, RoomPrefix(room_id) \o to_be_bytes(since))

pdus_all(d, room_id) == pdus_since(d, room_id, 0)

RECURSIVE UntilLoop(_, _, _, _, _)
UntilLoop(tree, prefix, current, max, acc) ==
    LET found == get_lt(tree, current)
    IN  IF IsSome(found) /\ Len(acc) < max /\ starts_with(Unwrap(found), prefix)
        THEN UntilLoop(tree, prefix, Unwrap(found), max,
                       Append(acc, tree[Unwrap(found)]))
        ELSE acc

\* Mutant: the cap on the number of results is ignored.
pdus_until_uncapped(d, room_id, until, max) ==
    UntilLoop(d.pduid_pdu, RoomPrefix(room_id),
              RoomPrefix(room_id) \o to_be_bytes(until), UnboundedMax, <<>>)

pdus_until(d, room_id, until, max) ==
    UntilLoop(d.pduid_pdu, RoomPrefix(room_id),
              RoomPrefix(room_id) \o to_be_bytes(until), max, <<>>)

\* ------------------------------------------------------------------ inputs
PowerLevelsContents ==
    {[users |-> (UserA :> 1), users_default |-> 0],
     [users |-> (UserA :> 0), users_default |-> 1]}

\* (event_type, content, unsigned, state_key) of the appends the model issues:
\* power-levels state events, a membership state event and a plain message.
AppendInputs ==
    {<<RoomPowerLevels, c, None, Some(<<>>)>> : c \in PowerLevelsContents}
    \cup {<<RoomMember, [membership |-> "join"], None, Some(UserA)>>}
    \cup {<<RoomMessage, [body |-> "A"], None, None>>}

MessageInputs == {<<RoomMessage, [body |-> "A"], None, None>>}

\* Receipt payloads (EduEvent) of the model.
ReceiptPayloads == {"receipt1", "receipt2"}

\* Account data: global (no room) and one room; two event types, "d" and "p".
UserdataScopes == {None, Some(RoomR)}
AccountDataEvents ==
    {[type |-> t, content |-> c] : t \in {<<100>>, <<112>>}, c \in {"x", "y"}}

\* The ordinals still available within the model's bound.
CanDraw(d) == \E s \in StartCounters : d.global >= s /\ d.global < s + MaxOps

\* ------------------------------------------------------- read receipts
\* "Remove old marker": walks from `current` towards the start of the room
\* and removes the first key that ends with the user id.
RECURSIVE roomlatest_remove_old(_, _, _, _)
roomlatest_remove_old(tree, prefix, user_id, current) ==
    IF ~starts_with(current, prefix) THEN tree
    ELSE IF rsplitn2_first(current) = user_id THEN tree_remove(tree, current)
    ELSE LET before == get_lt(tree, current)
         IN  IF IsSome(before)
             THEN roomlatest_remove_old(tree, prefix, user_id, Unwrap(before))
             ELSE tree

\* Mutant: only the last key of the room is examined.
roomlatest_update_last_only(d, user_id, room_id, event) ==
    LET prefix == RoomPrefix(room_id)
        keys == scan_prefix(d.roomlatestid_roomlatest, prefix)
        tree1 == IF keys # <<>> /\ rsplitn2_first(keys[Len(keys)]) = user_id
                 THEN tree_remove(d.roomlatestid_roomlatest, keys[Len(keys)])
                 ELSE d.roomlatestid_roomlatest
        index == increment(d.global)
        room_latest_id == prefix \o to_be_bytes(index) \o <<Delim>> \o user_id
    IN  [d EXCEPT !.global = index,
                  !.roomlatestid_roomlatest = tree_insert(tree1, room_latest_id, event)]

roomlatest_update(d, user_id, room_id, event) ==
    LET prefix == RoomPrefix(room_id)
        keys == scan_prefix(d.roomlatestid_roomlatest, prefix)
        tree1 == IF keys # <<>>
                 THEN roomlatest_remove_old(d.roomlatestid_roomlatest, prefix,
                                            user_id, keys[Len(keys)])
                 ELSE d.roomlatestid_roomlatest
        index == increment(d.global)
        room_latest_id == prefix \o to_be_bytes(index) \o <<Delim>> \o user_id
    IN  [d EXCEPT !.global = index,
                  !.roomlatestid_roomlatest = tree_insert(tree1, room_latest_id, event)]

roomlatests_since(d, room_id, since) ==
    SinceLoop(d.roomlatestid_roomlatest, RoomPrefix(room_id),
              RoomPrefix(room_id) \o to_be_bytes(since + 1), <<>>)

roomlatests_all(d, room_id) == roomlatests_since(d, room_id, 0)

\* ---------------------------------------------------------- account data
\* The scope prefix: room id (empty for global data), delimiter, user id,
\* delimiter.
UserdataPrefix(room_id, user_id) ==
    (IF IsSome(room_id) THEN Unwrap(room_id) ELSE <<>>)
        \o <<Delim>> \o user_id \o <<Delim>>

\* "Remove old entry": walks from `current` towards the start of the scope
\* and removes the first key whose third segment from the right equals the
\* user id.
RECURSIVE userdata_remove_old(_, _, _, _)
userdata_remove_old(tree, prefix, user_id, current) ==
    IF ~starts_with(current, prefix) THEN tree
    ELSE IF rsplit_nth(current, 2) = Some(user_id) THEN tree_remove(tree, current)
    ELSE LET before == get_lt(tree, current)
         IN  IF IsSome(before)
             THEN userdata_remove_old(tree, prefix, user_id, Unwrap(before))
             ELSE tree

\* An account-data event is its JSON: a type and a content.
room_userdata_update(d, room_id, user_id, event) ==
    LET prefix == UserdataPrefix(room_id, user_id)
        keys == scan_prefix(d.roomuserdataid_accountdata, prefix)
        tree1 == IF keys # <<>>
                 THEN userdata_remove_old(d.roomuserdataid_accountdata, prefix,
                                          user_id, keys[Len(keys)])
                 ELSE d.roomuserdataid_accountdata
        index == increment(d.global)
        key == prefix \o to_be_bytes(index) \o event.type
    IN  [d EXCEPT !.global = index,
                  !.roomuserdataid_accountdata = tree_insert(tree1, key, event)]

\* HashMap::insert(json["type"], event) for every value of the scan, in order.
RECURSIVE UserdataFold(_, _, _)
UserdataFold(events, i, userdata) ==
    IF i > Len(events) THEN userdata
    ELSE UserdataFold(events, i + 1,
            [t \in (DOMAIN userdata) \cup {events[i].type} |->
                IF t = events[i].type THEN events[i] ELSE userdata[t]])

room_userdata_since(d, room_id, user_id, since) ==
    UserdataFold(
        SinceLoop(d.roomuserdataid_accountdata, UserdataPrefix(room_id, user_id),
                  UserdataPrefix(room_id, user_id) \o to_be_bytes(since + 1), <<>>),
        1, <<>>)

room_userdata_all(d, room_id, user_id) == room_userdata_since(d, room_id, user_id, 0)

\* ------------------------------------------------ federation access check
AccessFutures == {"world_readable", "server_in_room", "server_can_see", "acl_check"}

Ok == "Ok"
Forbidden(reason) == reason

\* Mutant: the membership rule is tested before the ACL rule.
check_membership_first(acl_check, world_readable, server_in_room, server_can_see) ==
    IF ~world_readable /\ ~server_in_room THEN Forbidden("Server is not in room.")
    ELSE IF ~acl_check THEN Forbidden("Server access denied.")
    ELSE IF server_can_see = Some(FALSE)
         THEN Forbidden("Server is not allowed to see event.")
    ELSE Ok

\* The decision taken once the four joined futures have completed.
check(acl_check, world_readable, server_in_room, server_can_see) ==
    IF ~acl_check THEN Forbidden("Server access denied.")
    ELSE IF ~world_readable /\ ~server_in_room THEN Forbidden("Server is not in room.")
    ELSE IF server_can_see = Some(FALSE)
         THEN Forbidden("Server is not allowed to see event.")
    ELSE Ok

\* What each future resolves to, given the answers of the services.
FutureOutput(f, env, event_id) ==
    CASE f = "acl_check" -> env.acl_ok
      [] f = "world_readable" -> env.world_readable
      [] f = "server_in_room" -> env.server_in_room
      [] OTHER -> IF IsSome(event_id) THEN Some(env.can_see) ELSE None

AccessEnvs ==
    [acl_ok : BOOLEAN, world_readable : BOOLEAN, server_in_room : BOOLEAN,
     can_see : BOOLEAN]

AccessIdle ==
    [pc |-> "idle", env |-> [acl_ok |-> TRUE, world_readable |-> TRUE,
                             server_in_room |-> TRUE, can_see |-> TRUE],
     event_id |-> None, order |-> <<>>,
     acl_check |-> FALSE, world_readable |-> FALSE, server_in_room |-> FALSE,
     server_can_see |-> None, ret |-> Ok]

\* ------------------------------------------------------ concurrent callers
\* Data is shared by the request handlers: its methods take &self and run
\* concurrently, one store operation at a time.
Callers == {"c1", "c2", "c3"}

\* A caller that is in no call.
CallIdle ==
    [pc |-> "idle", op |-> "none", room_id |-> <<>>, user_id |-> <<>>,
     event |-> None, current |-> None, index |-> 0]

\* ----------------------------------------------------------------- actions
Init ==
    /\ \E c \in StartCounters : db = [EmptyDb EXCEPT !.global = c]
    /\ now = 0
    /\ last = [op |-> "init"]
    /\ ac = AccessIdle
    /\ calls = [c \in Callers |-> CallIdle]
    /\ drawn = <<>>
    /\ serialized = <<>>
    /\ appended = [room_id \in Rooms |-> <<>>]
    /\ raced = {}

\* pdu_append called with any of the given senders, inputs and outcomes of the
\* identity capability.
PduAppendWith(senders, inputs, cryptos) ==
    \E room_id \in Rooms, sender \in senders, in \in inputs, crypto \in cryptos :
        /\ CanDraw(db)
        /\ LET r == IF crypto = CryptoOk
                    THEN pdu_append(db, now, room_id, sender, in[1], in[2], in[3], in[4])
                    ELSE pdu_append_with(db, now, room_id, sender, in[1], in[2],
                                         in[3], in[4], crypto)
           IN  /\ db' = r.db
               /\ last' = [op |-> "pdu_append", room_id |-> room_id,
                           sender |-> sender, event_type |-> in[1],
                           content |-> in[2], unsigned |-> in[3],
                           state_key |-> in[4], ret |-> r.ret,
                           crypto |-> crypto, panicked |-> r.panicked]
        /\ UNCHANGED <<now, ac, race>>

PduAppendOf(senders, inputs) == PduAppendWith(senders, inputs, {CryptoOk})

PduAppendFrom(inputs) == PduAppendOf(Users, inputs)

PduAppend == PduAppendFrom(AppendInputs)

\* Appends of plain messages only: they build every PDU log the scans can meet.
PduAppendMessage == PduAppendFrom(MessageInputs)

RoomlatestUpdate ==
    \E room_id \in Rooms, user_id \in Users, event \in ReceiptPayloads :
        /\ CanDraw(db)
        /\ db' = roomlatest_update(db, user_id, room_id, event)
        /\ last' = [op |-> "roomlatest_update", room_id |-> room_id,
                    user_id |-> user_id, event |-> event]
        /\ UNCHANGED <<now, ac, race>>

RoomUserdataUpdate ==
    \E room_id \in UserdataScopes, user_id \in Users, event \in AccountDataEvents :
        /\ CanDraw(db)
        /\ db' = room_userdata_update(db, room_id, user_id, event)
        /\ last' = [op |-> "room_userdata_update", room_id |-> room_id,
                    user_id |-> user_id, event |-> event]
        /\ UNCHANGED <<now, ac, race>>

\* AccessCheck::check up to join!: the four futures are created.
CheckStart ==
    \E env \in AccessEnvs, event_id \in {None, Some("$event")} :
        /\ ac.pc \in {"idle", "done"}
        /\ ac' = [AccessIdle EXCEPT !.pc = "joining", !.env = env,
                                    !.event_id = event_id]
        /\ last' = [op |-> "check"]
        /\ UNCHANGED <<db, now, race>>

\* One of the joined futures completes; join! keeps its output.
CheckComplete ==
    \E f \in AccessFutures :
        /\ ac.pc = "joining"
        /\ \A i \in 1..Len(ac.order) : ac.order[i] # f
        /\ ac' = [ac EXCEPT ![f] = FutureOutput(f, ac.env, ac.event_id),
                            !.order = Append(@, f)]
        /\ UNCHANGED <<db, now, last, race>>

\* join! returns when all four have completed; the rules are then applied.
CheckDecide ==
    /\ ac.pc = "joining"
    /\ Len(ac.order) = Cardinality(AccessFutures)
    /\ ac' = [ac EXCEPT !.pc = "done",
                        !.ret = check(ac.acl_check, ac.world_readable,
                                      ac.server_in_room, ac.server_can_see)]
    /\ UNCHANGED <<db, now, last, race>>

NextPdu == PduAppend

SpecPdu == Init /\ [][NextPdu]_vars

NextScan == PduAppendMessage

SpecScan == Init /\ [][NextScan]_vars

NextLatest == RoomlatestUpdate

SpecLatest == Init /\ [][NextLatest]_vars

NextUserdata == RoomUserdataUpdate

SpecUserdata == Init /\ [][NextUserdata]_vars

NextAccess == CheckStart \/ CheckComplete \/ CheckDecide

SpecAccess == Init /\ [][NextAccess]_vars

\* ------------------------------------------------- vocabulary of the claims
\* The last call was a pdu_append that returned an event id.
LastAppendOk == last.op = "pdu_append" /\ IsSome(last.ret)

\* The keys of the PDU log whose PDU belongs to `room_id`.
RoomLogKeys(d, room_id) ==
    {k \in DOMAIN d.pduid_pdu : d.pduid_pdu[k].room_id = room_id}

\* The PDUs of the room's log.
RoomLog(d, room_id) == {d.pduid_pdu[k] : k \in RoomLogKeys(d, room_id)}

\* The ordinal a PDU key ends with.
KeyOrdinal(k) == u64_from_bytes(SubSeq(k, Len(k) - U64Bytes + 1, Len(k)))

\* The power-levels content in force in `room_id`: that of the most recently
\* appended power-levels state event of that very room, if there is one.
OwnPowerLevels(d, room_id) ==
    LET ks == {k \in RoomLogKeys(d, room_id) :
                  /\ d.pduid_pdu[k].kind = RoomPowerLevels
                  /\ d.pduid_pdu[k].state_key = Some(<<>>)}
    IN  IF ks = {} THEN None
        ELSE LET k == CHOOSE x \in ks : \A y \in ks : KeyOrdinal(y) <= KeyOrdinal(x)
             IN  Some(d.pduid_pdu[k].content)

\* The case in which an append is to be rejected: a state event other than a
\* membership event, in a room with a power-levels event, from a sender whose
\* effective power level is not above 0.
RejectCase(d, call) ==
    /\ IsSome(call.state_key)
    /\ IsSome(OwnPowerLevels(d, call.room_id))
    /\ call.event_type # RoomMember
    /\ PowerLevelOf(Unwrap(OwnPowerLevels(d, call.room_id)), call.sender) <= 0

SeqToSet(s) == {s[i] : i \in 1..Len(s)}
NoDuplicates(s) == \A i, j \in 1..Len(s) : i # j => s[i] # s[j]

\* The PDU as it was hashed: placeholder id, no content hash, no signature.
AsHashed(pdu) ==
    [pdu EXCEPT !.event_id = "$thiswillbefilledinlater",
                !.hashes = "aaa", !.signatures = {}]

\* ------------------------------------------------------------------ claims
\* C1: after every pdu_append that returns an event id, pdu_leaves_get(room)
\* is exactly the one-element list holding that id, whatever the frontier
\* held before.
C1_FrontierIsNewEvent ==
    LastAppendOk => pdu_leaves_get(db, last.room_id) = <<Unwrap(last.ret)>>

\* C1 witness: a successful append to a room whose frontier was not empty.
C1_Witness ==
    /\ LastAppendOk
    /\ Unwrap(pdu_get(db, Unwrap(last.ret))).prev_events # <<>>

\* C2: the new PDU's prev_events are the frontier as it was before the call,
\* its depth is 1 + the maximum depth of those events (1 for an empty
\* frontier), the first event of a room has depth 1 and the depth is above
\* that of every event of the old frontier.
C2_PrevEventsAndDepth ==
    [][LastAppendOk' =>
        LET pdu == Unwrap(pdu_get(db', Unwrap(last'.ret)))
            before == pdu_leaves_get(db, last'.room_id)
            depths == {Unwrap(pdu_get(db, before[i])).depth : i \in 1..Len(before)}
        IN  /\ pdu.prev_events = before
            /\ before = <<>> => pdu.depth = 1
            /\ before # <<>> => pdu.depth = 1 + MaxOf(depths)
            /\ RoomLog(db, last'.room_id) = {} => pdu.depth = 1
            /\ \A x \in depths : pdu.depth > x]_vars

\* C2 witness: an append built on a frontier event of depth 2.
C2_Witness ==
    /\ LastAppendOk
    /\ Unwrap(pdu_get(db, Unwrap(last.ret))).depth = 3

\* C3: in the reject case pdu_append returns absent, and an append that
\* returns absent leaves every tree and the counter as they were.
C3_RejectChangesNothing ==
    [][last'.op = "pdu_append" =>
        /\ RejectCase(db, last') => last'.ret = None
        /\ last'.ret = None => db' = db]_vars

\* C3 witness: a rejected append in a room that already holds events.
C3_Witness ==
    /\ last.op = "pdu_append"
    /\ last.ret = None
    /\ RejectCase(db, last)
    /\ RoomLog(db, last.room_id) # {}

\* C4: pdu_append returns absent if and only if the event is a state event,
\* the room has a power-levels event, the event is no membership event and
\* the sender's effective power level is <= 0.
C4_RejectIff ==
    [][last'.op = "pdu_append" =>
        (last'.ret = None <=> RejectCase(db, last'))]_vars

\* C7 as claimed: for every ordinal o up to the counter, pdus_until(room, o)
\* and pdus_since(room, o) together are exactly the room's log, nothing twice.
C7_SinceUntilWholeLog ==
    \A room_id \in Rooms : \A o \in 0..last_pdu_index(db) :
        LET both == pdus_until(db, room_id, o, UnboundedMax)
                        \o pdus_since(db, room_id, o)
        IN  /\ NoDuplicates(both)
            /\ SeqToSet(both) = RoomLog(db, room_id)

\* C7 amended: the two scans together are exactly the room's log without the
\* PDU stored under ordinal o itself, nothing twice; they are the whole log
\* when o is not the ordinal of a PDU of the room.
C7_SinceUntilAllButBoundary ==
    \A room_id \in Rooms : \A o \in 0..last_pdu_index(db) :
        LET both == pdus_until(db, room_id, o, UnboundedMax)
                        \o pdus_since(db, room_id, o)
            at == {d \in RoomLogKeys(db, room_id) : KeyOrdinal(d) = o}
        IN  /\ NoDuplicates(both)
            /\ SeqToSet(both) = {db.pduid_pdu[k] : k \in RoomLogKeys(db, room_id) \ at}

\* C7 witness: an ordinal that is no PDU of the room and has PDUs of the
\* room on both sides.
C7_Witness ==
    \E room_id \in Rooms : \E o \in 0..last_pdu_index(db) :
        /\ \A k \in RoomLogKeys(db, room_id) : KeyOrdinal(k) # o
        /\ pdus_until(db, room_id, o, UnboundedMax) # <<>>
        /\ pdus_since(db, room_id, o) # <<>>

\* C8: pdu_get of the id an append returned gives a PDU with the room,
\* sender, kind and content of the call and that id; pdu_get_count gives the
\* ordinal it was stored under; every stored PDU's id is the digest of its
\* own fields and no two stored PDUs share an id.
C8_RoundTrip ==
    /\ LastAppendOk =>
        LET e == Unwrap(last.ret)
            got == pdu_get(db, e)
            pdu_id == RoomPrefix(last.room_id) \o to_be_bytes(last_pdu_index(db))
        IN  /\ IsSome(got)
            /\ Unwrap(got).event_id = e
            /\ Unwrap(got).room_id = last.room_id
            /\ Unwrap(got).sender = last.sender
            /\ Unwrap(got).kind = last.event_type
            /\ Unwrap(got).content = last.content
            /\ pdu_get_count(db, e) = Some(last_pdu_index(db))
            /\ pdu_id \in DOMAIN db.pduid_pdu
            /\ db.pduid_pdu[pdu_id] = Unwrap(got)
    /\ \A k \in DOMAIN db.pduid_pdu :
        /\ db.pduid_pdu[k].event_id = reference_hash(AsHashed(db.pduid_pdu[k]))
        /\ pdu_get(db, db.pduid_pdu[k].event_id) = Some(db.pduid_pdu[k])
        /\ pdu_get_count(db, db.pduid_pdu[k].event_id) = Some(KeyOrdinal(k))
    /\ \A k1, k2 \in DOMAIN db.pduid_pdu :
        k1 # k2 => db.pduid_pdu[k1].event_id # db.pduid_pdu[k2].event_id

\* C8 witness: an append stored under ordinal 255, whose low byte is the
\* delimiter byte, in a log that holds another PDU.
C8_Witness ==
    /\ LastAppendOk
    /\ last_pdu_index(db) = 256
    /\ Cardinality(DOMAIN db.pduid_pdu) = 2
    /\ \E k \in DOMAIN db.pduid_pdu : KeyOrdinal(k) = Delim

\* C9: room_exists is false in the beginning, and after every call it is
\* true for a room exactly if it was true before or the call appended an
\* event to exactly that room.
C9_RoomExists ==
    /\ \A room_id \in Rooms : ~room_exists(db, room_id)
    /\ [][\A room_id \in Rooms :
            room_exists(db', room_id) <=>
                \/ room_exists(db, room_id)
                \/ LastAppendOk' /\ last'.room_id = room_id]_vars

\* C9 witness: "!r" exists after a successful append to it while the room
\* whose id extends "!r" has no events.
C9_Witness ==
    /\ LastAppendOk
    /\ room_exists(db, last.room_id)
    /\ \E other \in Rooms : ~room_exists(db, other)
    /\ last.room_id = RoomR

\* ----------------------------------------- vocabulary: receipts, account data
\* The parts of a receipt key, read by position: prefix, 8 ordinal bytes,
\* delimiter, user id.
LatestKeyUser(k, room_id) ==
    SubSeq(k, Len(RoomPrefix(room_id)) + U64Bytes + 2, Len(k))

LatestKeyOrdinal(k, room_id) ==
    u64_from_bytes(SubSeq(k, Len(RoomPrefix(room_id)) + 1,
                          Len(RoomPrefix(room_id)) + U64Bytes))

\* The stored receipt slots of a room, and those of one user in it.
RoomLatestSlots(d, room_id) ==
    {k \in DOMAIN d.roomlatestid_roomlatest : starts_with(k, RoomPrefix(room_id))}

LatestSlots(d, room_id, user_id) ==
    {k \in RoomLatestSlots(d, room_id) : LatestKeyUser(k, room_id) = user_id}

\* The payloads of a set of slots.
SlotPayloads(d, slots) == {<<k, d.roomlatestid_roomlatest[k]>> : k \in slots}

\* The room's slots in the order of their ordinals.
RECURSIVE SlotsByOrdinal(_, _)
SlotsByOrdinal(S, room_id) ==
    IF S = {} THEN <<>>
    ELSE LET m == CHOOSE x \in S : \A y \in S :
                      LatestKeyOrdinal(x, room_id) <= LatestKeyOrdinal(y, room_id)
         IN  <<m>> \o SlotsByOrdinal(S \ {m}, room_id)

\* The account-data entries of one scope, user and event type.
UserdataEntries(d, room_id, user_id, type) ==
    {k \in DOMAIN d.roomuserdataid_accountdata :
        /\ starts_with(k, UserdataPrefix(room_id, user_id))
        /\ d.roomuserdataid_accountdata[k].type = type}

AccountDataTypes == {e.type : e \in AccountDataEvents}

\* C5: after every roomlatest_update the store holds exactly one slot for
\* the updated (room, user), with the payload of that update; the slots of
\* every other (room, user) are untouched; there is never more than one slot
\* per (room, user); and roomlatests_all(room) returns the payload of every
\* slot of the room, once each.
C5_OneReceiptSlot ==
    /\ [](\A room_id \in Rooms :
            /\ \A user_id \in Users :
                Cardinality(LatestSlots(db, room_id, user_id)) <= 1
            /\ LET slots == SlotsByOrdinal(RoomLatestSlots(db, room_id), room_id)
               IN  roomlatests_all(db, room_id) =
                       [i \in 1..Len(slots) |-> db.roomlatestid_roomlatest[slots[i]]])
    /\ [][last'.op = "roomlatest_update" =>
            \A room_id \in Rooms, user_id \in Users :
                IF room_id = last'.room_id /\ user_id = last'.user_id
                THEN /\ Cardinality(LatestSlots(db', room_id, user_id)) = 1
                     /\ \A k \in LatestSlots(db', room_id, user_id) :
                            db'.roomlatestid_roomlatest[k] = last'.event
                ELSE SlotPayloads(db', LatestSlots(db', room_id, user_id))
                        = SlotPayloads(db, LatestSlots(db, room_id, user_id))]_vars

\* C5 witness: three updates, the second drawing ordinal 255, have left two
\* slots of two users in one room: one update replaced an earlier slot.
C5_Witness ==
    /\ last.op = "roomlatest_update"
    /\ last_pdu_index(db) = Delim + 2
    /\ Cardinality(DOMAIN db.roomlatestid_roomlatest) = 2
    /\ \A user_id \in Users :
            Cardinality(LatestSlots(db, last.room_id, user_id)) = 1

\* C6: the account-data store holds at most one entry per scope, user and
\* event type.
C6_OneEntryPerType ==
    \A room_id \in UserdataScopes, user_id \in Users, type \in AccountDataTypes :
        Cardinality(UserdataEntries(db, room_id, user_id, type)) <= 1

\* ------------------------------------------------- vocabulary: access check
\* The rule of the access check: admit exactly when the ACL allows the
\* origin, the room is world readable or the origin is in it, and no event
\* was named or the origin may see it.
Admits(env, event_id) ==
    /\ env.acl_ok
    /\ env.world_readable \/ env.server_in_room
    /\ event_id = None \/ env.can_see

\* The reason of the first rule that fails, in the order ACL, membership,
\* event visibility.
FirstFailingRule(env, event_id) ==
    IF ~env.acl_ok THEN "Server access denied."
    ELSE IF ~(env.world_readable \/ env.server_in_room) THEN "Server is not in room."
    ELSE "Server is not allowed to see event."

\* C10: the check admits exactly when the rule admits, rejects with the
\* reason of the first failing rule otherwise, and an ACL-denied origin gets
\* the ACL reason; this holds for every completion order of the four checks.
C10_AccessDecision ==
    ac.pc = "done" =>
        /\ Admits(ac.env, ac.event_id) <=> ac.ret = Ok
        /\ ~Admits(ac.env, ac.event_id) =>
                ac.ret = FirstFailingRule(ac.env, ac.event_id)
        /\ ~ac.env.acl_ok => ac.ret = "Server access denied."

\* C10 witness: an ACL-denied origin asking for an event of a world-readable
\* room, the ACL check completing last.
C10_Witness ==
    /\ ac.pc = "done"
    /\ ~ac.env.acl_ok
    /\ ac.env.world_readable
    /\ IsSome(ac.event_id)
    /\ ac.order[1] = "world_readable"
    /\ ac.order[Len(ac.order)] = "acl_check"
    /\ ac.ret = "Server access denied."

\* ------------------------------------------------------------ read cursors
\* An event id that no append of the model produces: the digest of a PDU
\* whose content is never sent.
UnknownEvent ==
    reference_hash([event_id |-> "$thiswillbefilledinlater",
                    room_id |-> RoomR, sender |-> UserA, origin |-> "hostname",
                    origin_server_ts |-> 0, kind |-> RoomMessage,
                    content |-> [body |-> "never sent"], state_key |-> None,
                    prev_events |-> <<>>, depth |-> 1, unsigned |-> <<>>,
                    hashes |-> "aaa", signatures |-> {}])

\* The event ids a caller can pass: those of the stored PDUs and an unknown one.
KnownEvents(d) == {d.pduid_pdu[k].event_id : k \in DOMAIN d.pduid_pdu}

\* Messages of one sender, in either room: the known events of the cursors.
PduAppendByA == PduAppendOf({UserA}, MessageInputs)

\* The cursors of both users in room "!r" are set, to events of either room.
RoomReadSet ==
    \E room_id \in {RoomR}, user_id \in Users,
       event_id \in KnownEvents(db) \cup {UnknownEvent} :
        /\ LET r == room_read_set(db, room_id, user_id, event_id)
           IN  /\ db' = r.db
               /\ last' = [op |-> "room_read_set", room_id |-> room_id,
                           user_id |-> user_id, event_id |-> event_id,
                           ret |-> r.ret]
        /\ UNCHANGED <<now, ac, race>>

NextRead == PduAppendByA \/ RoomReadSet

SpecRead == Init /\ [][NextRead]_vars

\* C12: room_read_get is absent for every (room, user) in the beginning and
\* changes only by a room_read_set or a pdu_append for that (room, user); a
\* room_read_set with a known event returns the positive result and makes
\* room_read_get return that event's ordinal, leaving every other cursor as
\* it was; with an unknown event it returns the negative result and leaves
\* the store unchanged.
C12_ReadCursor ==
    /\ \A room_id \in Rooms, user_id \in Users :
            room_read_get(db, room_id, user_id) = None
    /\ [][/\ last'.op = "room_read_set" =>
                IF last'.event_id \in KnownEvents(db)
                THEN /\ last'.ret = Some(TRUE)
                     /\ room_read_get(db', last'.room_id, last'.user_id)
                            = pdu_get_count(db, last'.event_id)
                     /\ IsSome(pdu_get_count(db, last'.event_id))
                     /\ \A room_id \in Rooms, user_id \in Users :
                            <<room_id, user_id>> # <<last'.room_id, last'.user_id>>
                                => room_read_get(db', room_id, user_id)
                                      = room_read_get(db, room_id, user_id)
                ELSE /\ last'.ret = None
                     /\ db' = db
           /\ \A room_id \in Rooms, user_id \in Users :
                room_read_get(db', room_id, user_id) # room_read_get(db, room_id, user_id)
                    => /\ last'.op \in {"room_read_set", "pdu_append"}
                       /\ last'.room_id = room_id
                       /\ (IF last'.op = "pdu_append" THEN last'.sender
                           ELSE last'.user_id) = user_id]_vars

\* C12 witness: a room_read_set that replaced an earlier, different cursor by
\* the ordinal 255 of a known event.
C12_Witness ==
    /\ last.op = "room_read_set"
    /\ last.ret = Some(TRUE)
    /\ room_read_get(db, last.room_id, last.user_id) = Some(Delim)
    /\ pdu_get_count(db, last.event_id) = Some(Delim)
    /\ last_pdu_index(db) > Delim
    /\ Unwrap(pdu_get(db, last.event_id)).room_id = last.room_id
    /\ \E k \in DOMAIN db.pduid_pdu :
            /\ KeyOrdinal(k) = Delim + 1
            /\ db.pduid_pdu[k].room_id = last.room_id
            /\ db.pduid_pdu[k].sender = last.user_id

\* ------------------------------------------------ vocabulary: room state
\* The keys of the room's log that hold state events.
StateLogKeys(d, room_id) ==
    {k \in RoomLogKeys(d, room_id) : IsSome(d.pduid_pdu[k].state_key)}

\* The state of a room as its own log defines it: every (kind, state_key)
\* appended to this room as a state event, with the PDU of the most recent
\* such append.
StateOfLog(d, room_id) ==
    LET ks == StateLogKeys(d, room_id)
        PairOf(k) == <<d.pduid_pdu[k].kind, Unwrap(d.pduid_pdu[k].state_key)>>
    IN  [p \in {PairOf(k) : k \in ks} |->
            LET same == {k \in ks : PairOf(k) = p}
                k == CHOOSE x \in same : \A y \in same : KeyOrdinal(y) <= KeyOrdinal(x)
            IN  d.pduid_pdu[k]]

\* Whether `unsigned` carries a prev_content.
HasPrevContent(unsigned) == \E x \in DOMAIN unsigned : x = "prev_content"

\* C13 as claimed: room_state(room) is exactly the state the room's own log
\* defines: the latest PDU per (kind, state_key) appended to it, nothing else.
C13_StateIsLatestPerPair ==
    \A room_id \in Rooms : room_state(db, room_id) = StateOfLog(db, room_id)

\* C14 as claimed: every PDU in room_state(R) is a PDU of room R.
C14_StateScopedToRoom ==
    \A room_id \in Rooms :
        \A p \in DOMAIN room_state(db, room_id) :
            room_state(db, room_id)[p].room_id = room_id

\* C17 as claimed: the PDU stored by a successful append carries as
\* prev_content the content of the room's previous PDU for the same
\* (kind, state_key), and no prev_content when the room has none or the event
\* has no state_key.
C17_PrevContent ==
    [][LastAppendOk' =>
        LET pdu == Unwrap(pdu_get(db', Unwrap(last'.ret)))
            prior == StateOfLog(db, last'.room_id)
        IN  IF /\ IsSome(last'.state_key)
               /\ <<last'.event_type, Unwrap(last'.state_key)>> \in DOMAIN prior
            THEN /\ HasPrevContent(pdu.unsigned)
                 /\ pdu.unsigned["prev_content"]
                        = prior[<<last'.event_type, Unwrap(last'.state_key)>>].content
            ELSE ~HasPrevContent(pdu.unsigned)]_vars

\* ------------------------------------------------- failing identity capability
\* Appends of one sender whose hashing or signing may fail.
PduAppendSigning == PduAppendWith({UserA}, AppendInputs, CryptoOutcomes)

NextSign == PduAppendSigning

SpecSign == Init /\ [][NextSign]_vars

\* Every stored copy of a PDU carries the content hash and the signature of
\* the origin.
AllStoredSigned(d) ==
    /\ \A k \in DOMAIN d.pduid_pdu :
            /\ d.pduid_pdu[k].hashes = "sha256"
            /\ d.pduid_pdu[k].signatures = {"hostname"}
    /\ \A k \in DOMAIN d.roomstateid_pdu :
            /\ d.roomstateid_pdu[k].hashes = "sha256"
            /\ d.roomstateid_pdu[k].signatures = {"hostname"}

\* C18: an append whose hashing or signing fails leaves the frontier, the PDU
\* log, the event-id index, the state index, the counter and the read cursors
\* as they were and returns no event id; the call panics exactly when the
\* event was authorized; and every PDU in the store is hashed and signed.
C18_NoWriteBeforeSigning ==
    /\ [] AllStoredSigned(db)
    /\ [][last'.op = "pdu_append" /\ last'.crypto # CryptoOk =>
            /\ db' = db
            /\ last'.ret = None
            /\ last'.panicked <=>
                    is_authorized(db, last'.room_id, last'.sender,
                                  last'.event_type, last'.state_key)]_vars

\* C18 witness: signing failed for a state event that would have superseded
\* an earlier one in a room with a non-empty frontier.
C18_Witness ==
    /\ last.op = "pdu_append"
    /\ last.crypto = "sign_fails"
    /\ last.panicked
    /\ IsSome(last.state_key)
    /\ pdu_leaves_get(db, last.room_id) # <<>>
    /\ <<last.event_type, Unwrap(last.state_key)>> \in DOMAIN StateOfLog(db, last.room_id)

\* ----------------------------------------------- typing / presence markers
\* The latest time of the model's clock and the latest timeout of a marker.
MaxTime == 2

\* Typing events (EduEvent) of the model, and the event roomactives_in
\* returns when it found nothing: a typing event with no users.
ActivePayloads ==
    {[type |-> "m.typing", user_ids |-> <<UserA>>],
     [type |-> "m.typing", user_ids |-> <<UserB>>]}

EmptyTyping == [type |-> "m.typing", user_ids |-> <<>>]

\* The absolute times (milliseconds) at which a marker times out.
Timeouts == 1..MaxTime

\* Number of markers the model lets roomactive_add store in one run.
MaxMarkers == 2

CanAdd(d) == \E s \in StartCounters : d.global >= s /\ d.global < s + MaxMarkers

\* The loop of roomactive_add: takes the first key after `current`; while it
\* is a key of the room and its timeout is greater than the current time,
\* removes it and goes on from it.
RECURSIVE roomactive_add_loop(_, _, _, _)
roomactive_add_loop(tree, prefix, time, current) ==
    LET found == get_gt(tree, current)
    IN  IF /\ IsSome(found)
           /\ starts_with(Unwrap(found), prefix)
           /\ u64_from_bytes(split(Unwrap(found))[2]) > time
        THEN roomactive_add_loop(tree_remove(tree, Unwrap(found)), prefix, time,
                                 Unwrap(found))
        ELSE tree

roomactive_add(d, time, event, room_id, timeout) ==
    LET prefix == RoomPrefix(room_id)
        tree1 == roomactive_add_loop(d.roomactiveid_roomactive, prefix, time, prefix)
        index == increment(d.global)
        room_active_id == prefix \o to_be_bytes(timeout) \o <<Delim>>
                            \o to_be_bytes(index)
    IN  [d EXCEPT !.global = index,
                  !.roomactiveid_roomactive = tree_insert(tree1, room_active_id, event)]

\* The loop of roomactive_remove: walks the keys of the room and removes the
\* first one whose value is the event.
RECURSIVE roomactive_remove_loop(_, _, _, _)
roomactive_remove_loop(tree, prefix, json, current) ==
    LET found == get_gt(tree, current)
    IN  IF IsSome(found) /\ starts_with(Unwrap(found), prefix)
        THEN IF tree[Unwrap(found)] = json
             THEN tree_remove(tree, Unwrap(found))
             ELSE roomactive_remove_loop(tree, prefix, json, Unwrap(found))
        ELSE tree

roomactive_remove(d, event, room_id) ==
    [d EXCEPT !.roomactiveid_roomactive =
        roomactive_remove_loop(@, RoomPrefix(room_id), event, RoomPrefix(room_id))]

\* Mutant: the scan starts at the beginning of the room.
roomactives_in_from_start(d, time, room_id) ==
    LET room_actives == SinceLoop(d.roomactiveid_roomactive, RoomPrefix(room_id),
                                  RoomPrefix(room_id), <<>>)
    IN  IF room_actives = <<>> THEN <<EmptyTyping>> ELSE room_actives

\* The values of the keys after room 0xff now, while they are keys of the
\* room; the store is only read.
roomactives_in(d, time, room_id) ==
    LET room_actives == SinceLoop(d.roomactiveid_roomactive, RoomPrefix(room_id),
                                  RoomPrefix(room_id) \o to_be_bytes(time), <<>>)
    IN  IF room_actives = <<>> THEN <<EmptyTyping>> ELSE room_actives

\* utils::millis_since_unix_epoch() advances.
Tick ==
    /\ now < MaxTime
    /\ now' = now + 1
    /\ last' = [op |-> "tick"]
    /\ UNCHANGED <<db, ac, race>>

RoomactiveAdd ==
    \E room_id \in Rooms, event \in ActivePayloads, timeout \in Timeouts :
        /\ CanAdd(db)
        /\ db' = roomactive_add(db, now, event, room_id, timeout)
        /\ last' = [op |-> "roomactive_add", room_id |-> room_id,
                    event |-> event, timeout |-> timeout]
        /\ UNCHANGED <<now, ac, race>>

RoomactiveRemove ==
    \E room_id \in Rooms, event \in ActivePayloads :
        /\ db' = roomactive_remove(db, event, room_id)
        /\ last' = [op |-> "roomactive_remove", room_id |-> room_id,
                    event |-> event]
        /\ UNCHANGED <<now, ac, race>>

RoomactivesIn ==
    \E room_id \in Rooms :
        /\ last' = [op |-> "roomactives_in", room_id |-> room_id,
                    ret |-> roomactives_in(db, now, room_id)]
        /\ UNCHANGED <<db, now, ac, race>>

NextActive == Tick \/ RoomactiveAdd \/ RoomactiveRemove \/ RoomactivesIn

SpecActive == Init /\ [][NextActive]_vars

\* ------------------------------------------ vocabulary: typing / presence
\* The parts of a marker key, read by position: room id, delimiter, 8 timeout
\* bytes, delimiter, 8 ordinal bytes.
ActiveKeyRoom(k) == SubSeq(k, 1, Len(k) - 2 * U64Bytes - 2)

ActiveKeyTimeout(k) ==
    u64_from_bytes(SubSeq(k, Len(k) - 2 * U64Bytes, Len(k) - U64Bytes - 1))

\* The stored markers of a room.
ActiveSlots(d, room_id) ==
    {k \in DOMAIN d.roomactiveid_roomactive : ActiveKeyRoom(k) = room_id}

\* A timeout has elapsed at time t when it lies before t; at t itself the
\* marker is still live.
Elapsed(timeout, t) == timeout < t

\* The payloads of a set of markers, by timeout and then by ordinal.
RECURSIVE ActivePayloadsOf(_, _)
ActivePayloadsOf(d, S) ==
    IF S = {} THEN <<>>
    ELSE LET m == CHOOSE x \in S : \A y \in S :
                    \/ ActiveKeyTimeout(x) < ActiveKeyTimeout(y)
                    \/ /\ ActiveKeyTimeout(x) = ActiveKeyTimeout(y)
                       /\ KeyOrdinal(x) <= KeyOrdinal(y)
         IN  <<d.roomactiveid_roomactive[m]>> \o ActivePayloadsOf(d, S \ {m})

\* C19: at every time and for every store, roomactives_in(room) is the list
\* of the payloads of the room's stored markers whose timeout has not elapsed
\* (timeout >= now), and the one empty typing event when there is none; a
\* call changes nothing in the store.
C19_ActivesInUnexpired ==
    \A room_id \in Rooms :
        LET live == {k \in ActiveSlots(db, room_id) :
                        ~Elapsed(ActiveKeyTimeout(k), now)}
        IN  /\ roomactives_in(db, now, room_id) =
                    (IF live = {} THEN <<EmptyTyping>>
                     ELSE ActivePayloadsOf(db, live))
            /\ roomactives_in(db, now, room_id) # <<>>
            /\ last.op = "roomactives_in" /\ last.room_id = room_id
                    => last.ret = roomactives_in(db, now, room_id)

\* C19 witness: a call for a room whose only marker has elapsed returned the
\* empty typing event, while the other room held a live marker.
C19_Witness ==
    /\ last.op = "roomactives_in"
    /\ last.room_id = RoomR
    /\ last.ret = <<EmptyTyping>>
    /\ \E k \in ActiveSlots(db, RoomR) : Elapsed(ActiveKeyTimeout(k), now)
    /\ \E k \in ActiveSlots(db, RoomRx) : ~Elapsed(ActiveKeyTimeout(k), now)

\* C20 as claimed: after roomactives_in(room) has returned, the store holds
\* no marker of that room whose timeout had elapsed at the time of the call.
C20_ListingEvicts ==
    last.op = "roomactives_in" =>
        \A k \in ActiveSlots(db, last.room_id) : ~Elapsed(ActiveKeyTimeout(k), now)

\* ------------------------------------------------- the store as a whole
\* Every operation that writes the store, called with the given inputs.
RoomlatestUpdateOf(rooms, users, events) ==
    \E room_id \in rooms, user_id \in users, event \in events :
        /\ CanDraw(db)
        /\ db' = roomlatest_update(db, user_id, room_id, event)
        /\ last' = [op |-> "roomlatest_update", room_id |-> room_id,
                    user_id |-> user_id, event |-> event]
        /\ UNCHANGED <<now, ac, race>>

RoomUserdataUpdateOf(scopes, users, events) ==
    \E room_id \in scopes, user_id \in users, event \in events :
        /\ CanDraw(db)
        /\ db' = room_userdata_update(db, room_id, user_id, event)
        /\ last' = [op |-> "room_userdata_update", room_id |-> room_id,
                    user_id |-> user_id, event |-> event]
        /\ UNCHANGED <<now, ac, race>>

RoomactiveAddOf(rooms, events, timeouts) ==
    \E room_id \in rooms, event \in events, timeout \in timeouts :
        /\ CanDraw(db)
        /\ db' = roomactive_add(db, now, event, room_id, timeout)
        /\ last' = [op |-> "roomactive_add", room_id |-> room_id,
                    event |-> event, timeout |-> timeout]
        /\ UNCHANGED <<now, ac, race>>

RoomactiveRemoveOf(rooms, events) ==
    \E room_id \in rooms, event \in events :
        /\ db' = roomactive_remove(db, event, room_id)
        /\ last' = [op |-> "roomactive_remove", room_id |-> room_id,
                    event |-> event]
        /\ UNCHANGED <<now, ac, race>>

RoomReadSetOf(rooms, users) ==
    \E room_id \in rooms, user_id \in users, event_id \in KnownEvents(db) :
        /\ LET r == room_read_set(db, room_id, user_id, event_id)
           IN  /\ db' = r.db
               /\ last' = [op |-> "room_read_set", room_id |-> room_id,
                           user_id |-> user_id, event_id |-> event_id,
                           ret |-> r.ret]
        /\ UNCHANGED <<now, ac, race>>

\* One receipt, one account-data event and one typing marker, all of user @a
\* in room "!r", next to the events @a appends to either room.
StoreLatest == RoomlatestUpdateOf({RoomR}, {UserA}, {"receipt1"})

StoreUserdata ==
    RoomUserdataUpdateOf({Some(RoomR)}, {UserA},
                         {[type |-> <<100>>, content |-> "x"]})

StoreActive ==
    RoomactiveAddOf({RoomR}, {[type |-> "m.typing", user_ids |-> <<UserA>>]},
                    {MaxTime})

StoreInactive ==
    RoomactiveRemoveOf({RoomR}, {[type |-> "m.typing", user_ids |-> <<UserA>>]})

StoreRead == RoomReadSetOf({RoomR}, {UserB})

\* A membership state event and a plain message.
StoreInputs == {in \in AppendInputs : in[1] # RoomPowerLevels}

StoreAppend == PduAppendOf({UserA}, StoreInputs)

NextStore ==
    \/ StoreAppend
    \/ StoreLatest
    \/ StoreUserdata
    \/ StoreActive
    \/ StoreInactive
    \/ StoreRead

SpecStore == Init /\ [][NextStore]_vars

\* C16: whatever operation runs, every entry of the PDU log and of the
\* event-id index stays as it is, and for every event pdu_get returned a PDU
\* for, pdu_get and pdu_get_count return afterwards what they returned before.
C16_AppendOnly ==
    [][/\ \A k \in DOMAIN db.pduid_pdu :
            /\ k \in DOMAIN db'.pduid_pdu
            /\ db'.pduid_pdu[k] = db.pduid_pdu[k]
       /\ \A e \in DOMAIN db.eventid_pduid :
            /\ e \in DOMAIN db'.eventid_pduid
            /\ db'.eventid_pduid[e] = db.eventid_pduid[e]
       /\ \A e \in KnownEvents(db) :
            /\ IsSome(pdu_get(db, e))
            /\ pdu_get(db', e) = pdu_get(db, e)
            /\ pdu_get_count(db', e) = pdu_get_count(db, e)]_vars

\* C16 witness: a room's log holds two PDUs, and an operation other than an
\* append has written the store since.
C16_Witness ==
    /\ Cardinality(RoomLogKeys(db, RoomR)) >= 2
    /\ last.op \in {"roomlatest_update", "room_userdata_update", "roomactive_add"}
    /\ \/ DOMAIN db.roomlatestid_roomlatest # {}
       \/ DOMAIN db.roomuserdataid_accountdata # {}
       \/ DOMAIN db.roomactiveid_roomactive # {}

\* ------------------------------ roomlatest_update, one store operation at a time
\* The calls that still have to draw their ordinal.
Undrawn ==
    {c \in Callers :
        calls[c].pc \in {"loop", "leaves", "build", "clear", "add", "draw"}}

\* A call may begin while the draws of the run, with those already due, stay
\* within the model's bound.
CanStart ==
    \E s \in StartCounters :
        /\ db.global >= s
        /\ db.global + Cardinality(Undrawn) < s + MaxOps

\* Calls for one (room, user) exclude each other; calls for different users
\* or rooms do not.
Excluded(c, room_id, user_id) ==
    \E o \in Callers \ {c} :
        /\ calls[o].op = "roomlatest_update"
        /\ calls[o].room_id = room_id
        /\ calls[o].user_id = user_id

\* Mutant: a key of another user ends the walk.
roomlatest_loop_step_no_walk(tree, prefix, user_id, current) ==
    IF ~starts_with(current, prefix)
    THEN [tree |-> tree, current |-> None]
    ELSE IF rsplitn2_first(current) = user_id
    THEN [tree |-> tree_remove(tree, current), current |-> None]
    ELSE [tree |-> tree, current |-> None]

\* One iteration of the loop of roomlatest_update on the key `current`: the
\* tree after it and the key of the next iteration, None after a break.
roomlatest_loop_step(tree, prefix, user_id, current) ==
    IF ~starts_with(current, prefix)
    THEN [tree |-> tree, current |-> None]
    ELSE IF rsplitn2_first(current) = user_id
    THEN [tree |-> tree_remove(tree, current), current |-> None]
    ELSE [tree |-> tree, current |-> get_lt(tree, current)]

\* The call begins: scan_prefix(prefix).keys().next_back().
LatestStartOf(c, rooms, users, events) ==
    \E room_id \in rooms, user_id \in users, event \in events :
        /\ calls[c].pc = "idle"
        /\ ~Excluded(c, room_id, user_id)
        /\ CanStart
        /\ LET keys == scan_prefix(db.roomlatestid_roomlatest, RoomPrefix(room_id))
           IN  calls' = [calls EXCEPT ![c] =
                    [pc |-> IF keys = <<>> THEN "draw" ELSE "loop",
                     op |-> "roomlatest_update", room_id |-> room_id,
                     user_id |-> user_id, event |-> Some(event),
                     current |-> IF keys = <<>> THEN None
                                 ELSE Some(keys[Len(keys)]),
                     index |-> 0]]
        /\ serialized' = (<<room_id, user_id>> :> event) @@ serialized
        /\ UNCHANGED <<db, now, last, ac, drawn, appended, raced>>

LatestStart(c) == LatestStartOf(c, Rooms, Users, ReceiptPayloads)

\* One iteration of "Remove old marker".
LatestLoop(c) ==
    /\ calls[c].pc = "loop"
    /\ LET r == roomlatest_loop_step(db.roomlatestid_roomlatest,
                                     RoomPrefix(calls[c].room_id),
                                     calls[c].user_id, Unwrap(calls[c].current))
       IN  /\ db' = [db EXCEPT !.roomlatestid_roomlatest = r.tree]
           /\ calls' = [calls EXCEPT ![c].current = r.current,
                                     ![c].pc = IF IsSome(r.current) THEN "loop"
                                               ELSE "draw"]
    /\ UNCHANGED <<now, last, ac, drawn, serialized, appended, raced>>

\* Mutant: the incremented value is returned but not stored.
update_and_fetch_lost(d) == [db |-> d, ret |-> increment(d.global)]

\* global.update_and_fetch(COUNTER, utils::increment): one atomic operation
\* of the store.
update_and_fetch(d) == [db |-> [d EXCEPT !.global = increment(@)],
                        ret |-> increment(d.global)]

CallDraw(c) ==
    /\ calls[c].pc = "draw"
    /\ LET r == update_and_fetch(db)
       IN  /\ db' = r.db
           /\ calls' = [calls EXCEPT ![c].index = r.ret, ![c].pc = "insert"]
           /\ drawn' = Append(drawn, r.ret)
    /\ UNCHANGED <<now, last, ac, serialized, appended, raced>>

\* The insert under room 0xff index 0xff user; the call returns.
LatestInsert(c) ==
    /\ calls[c].pc = "insert"
    /\ calls[c].op = "roomlatest_update"
    /\ db' = [db EXCEPT !.roomlatestid_roomlatest =
                tree_insert(@, RoomPrefix(calls[c].room_id)
                                 \o to_be_bytes(calls[c].index) \o <<Delim>>
                                 \o calls[c].user_id,
                            Unwrap(calls[c].event))]
    /\ calls' = [calls EXCEPT ![c] = CallIdle]
    /\ UNCHANGED <<now, last, ac, drawn, serialized, appended, raced>>

NextRace ==
    \E c \in Callers :
        \/ LatestStart(c)
        \/ LatestLoop(c)
        \/ CallDraw(c)
        \/ LatestInsert(c)

SpecRace == Init /\ [][NextRace]_vars

\* No call is in flight.
Quiescent == \A c \in Callers : calls[c].pc = "idle"

\* C15: once all calls have finished, every updated (room, user) has exactly
\* one slot, and its payload is that of the update of this (room, user) that
\* was serialized last.
C15_LastSerializedWins ==
    Quiescent =>
        \A p \in DOMAIN serialized :
            /\ Cardinality(LatestSlots(db, p[1], p[2])) = 1
            /\ \A k \in LatestSlots(db, p[1], p[2]) :
                    db.roomlatestid_roomlatest[k] = serialized[p]

\* C15 witness: three calls have finished; two of them updated one
\* (room, user) one after the other, and the third, for another user of the
\* room, drew its ordinal between their draws.
C15_Witness ==
    /\ Quiescent
    /\ Len(drawn) = 3
    /\ \E room_id \in Rooms :
            /\ LatestSlots(db, room_id, UserA) # {}
            /\ \E k \in LatestSlots(db, room_id, UserB) :
                    LatestKeyOrdinal(k, room_id) = drawn[2]
            /\ \E k \in LatestSlots(db, room_id, UserA) :
                    LatestKeyOrdinal(k, room_id) = drawn[3]
            /\ Cardinality(DOMAIN db.roomlatestid_roomlatest) = 2

\* ------------------------------------- the four callers of the shared counter
\* pdu_append, roomactive_add and room_userdata_update as three steps each:
\* what the call does to the store before it draws its ordinal, the draw,
\* and the writes that use the ordinal.  roomlatest_update takes the steps
\* above.

\* The writes of pdu_append that follow the draw: the PDU, the event-id
\* index, the state index and the read cursor.
pdu_write(d, pdu, pdu_json, index) ==
    LET pdu_id == RoomPrefix(pdu.room_id) \o to_be_bytes(index)
        d3 == [d EXCEPT !.pduid_pdu = tree_insert(@, pdu_id, pdu_json)]
        d4 == [d3 EXCEPT !.eventid_pduid = tree_insert(@, pdu.event_id, pdu_id)]
        d5 == IF IsSome(pdu.state_key)
              THEN [d4 EXCEPT !.roomstateid_pdu =
                      tree_insert(@,
                          RoomPrefix(pdu.room_id) \o KindBytes(pdu.kind)
                              \o <<Delim>> \o Unwrap(pdu.state_key),
                          pdu_json)]
              ELSE d4
    IN  room_read_set(d5, pdu.room_id, pdu.sender, pdu.event_id).db

\* Every leaf of the room is a stored PDU.  It is not while another append to
\* the room has replaced the leaves and has not yet inserted its PDU; then
\* .expect("pdu in prev_events is valid") panics.
LeavesStored(d, room_id) ==
    \A i \in 1..Len(pdu_leaves_get(d, room_id)) :
        IsSome(pdu_get(d, pdu_leaves_get(d, room_id)[i]))

\* pdu_append up to pdu_leaves_replace.  A call that returns None for an
\* unauthorized event, or panics on a leaf that is not stored, ends before
\* it has written or drawn anything.
AppendBegin(c) ==
    \E room_id \in {RoomR}, in \in StoreInputs :
        /\ calls[c].pc = "idle"
        /\ CanStart
        /\ is_authorized(db, room_id, UserA, in[1], in[4])
        /\ LeavesStored(db, room_id)
        /\ LET pdu0 == pdu_build(db, now, room_id, UserA, in[1], in[2], in[3], in[4])
               pdu == [pdu0 EXCEPT !.event_id = Unwrap(pdu_event_id(pdu0, CryptoOk))]
               pdu_json == Unwrap(pdu_sign(pdu, CryptoOk))
           IN  /\ db' = pdu_leaves_replace(db, room_id, pdu.event_id)
               /\ calls' = [calls EXCEPT ![c] =
                    [pc |-> "draw", op |-> "pdu_append", room_id |-> room_id,
                     user_id |-> UserA,
                     event |-> Some([pdu |-> pdu, pdu_json |-> pdu_json]),
                     current |-> None, index |-> 0]]
        /\ UNCHANGED <<now, last, ac, drawn, serialized, appended, raced>>

AppendFinish(c) ==
    /\ calls[c].pc = "insert"
    /\ calls[c].op = "pdu_append"
    /\ db' = pdu_write(db, Unwrap(calls[c].event).pdu,
                       Unwrap(calls[c].event).pdu_json, calls[c].index)
    /\ calls' = [calls EXCEPT ![c] = CallIdle]
    /\ UNCHANGED <<now, last, ac, drawn, serialized, appended, raced>>

\* roomactive_add up to the end of its loop.
ActiveBegin(c) ==
    \E room_id \in {RoomR}, timeout \in {MaxTime},
       event \in {[type |-> "m.typing", user_ids |-> <<UserA>>]} :
        /\ calls[c].pc = "idle"
        /\ CanStart
        /\ db' = [db EXCEPT !.roomactiveid_roomactive =
                    roomactive_add_loop(@, RoomPrefix(room_id), now,
                                        RoomPrefix(room_id))]
        /\ calls' = [calls EXCEPT ![c] =
                [pc |-> "draw", op |-> "roomactive_add", room_id |-> room_id,
                 user_id |-> <<>>,
                 event |-> Some([event |-> event, timeout |-> timeout]),
                 current |-> None, index |-> 0]]
        /\ UNCHANGED <<now, last, ac, drawn, serialized, appended, raced>>

ActiveFinish(c) ==
    /\ calls[c].pc = "insert"
    /\ calls[c].op = "roomactive_add"
    /\ db' = [db EXCEPT !.roomactiveid_roomactive =
                tree_insert(@, RoomPrefix(calls[c].room_id)
                                 \o to_be_bytes(Unwrap(calls[c].event).timeout)
                                 \o <<Delim>> \o to_be_bytes(calls[c].index),
                            Unwrap(calls[c].event).event)]
    /\ calls' = [calls EXCEPT ![c] = CallIdle]
    /\ UNCHANGED <<now, last, ac, drawn, serialized, appended, raced>>

\* room_userdata_update up to the end of "Remove old entry".
UserdataBegin(c) ==
    \E room_id \in {Some(RoomR)}, user_id \in {UserA},
       event \in {[type |-> <<100>>, content |-> "x"]} :
        /\ calls[c].pc = "idle"
        /\ CanStart
        /\ LET prefix == UserdataPrefix(room_id, user_id)
               keys == scan_prefix(db.roomuserdataid_accountdata, prefix)
           IN  db' = [db EXCEPT !.roomuserdataid_accountdata =
                        IF keys # <<>>
                        THEN userdata_remove_old(@, prefix, user_id, keys[Len(keys)])
                        ELSE @]
        /\ calls' = [calls EXCEPT ![c] =
                [pc |-> "draw", op |-> "room_userdata_update",
                 room_id |-> room_id, user_id |-> user_id,
                 event |-> Some(event), current |-> None, index |-> 0]]
        /\ UNCHANGED <<now, last, ac, drawn, serialized, appended, raced>>

UserdataFinish(c) ==
    /\ calls[c].pc = "insert"
    /\ calls[c].op = "room_userdata_update"
    /\ db' = [db EXCEPT !.roomuserdataid_accountdata =
                tree_insert(@, UserdataPrefix(calls[c].room_id, calls[c].user_id)
                                 \o to_be_bytes(calls[c].index)
                                 \o Unwrap(calls[c].event).type,
                            Unwrap(calls[c].event))]
    /\ calls' = [calls EXCEPT ![c] = CallIdle]
    /\ UNCHANGED <<now, last, ac, drawn, serialized, appended, raced>>

\* Receipts of both users in room "!r".
CounterLatestStart(c) == LatestStartOf(c, {RoomR}, Users, {"receipt1"})

NextCounter ==
    \E c \in Callers :
        \/ CounterLatestStart(c)
        \/ LatestLoop(c)
        \/ LatestInsert(c)
        \/ AppendBegin(c)
        \/ AppendFinish(c)
        \/ ActiveBegin(c)
        \/ ActiveFinish(c)
        \/ UserdataBegin(c)
        \/ UserdataFinish(c)
        \/ CallDraw(c)

SpecCounter == Init /\ [][NextCounter]_vars

\* --------------------------------------------- vocabulary: the shared counter
\* The ordinals in the keys of the four families that carry one, each with
\* the tree and the key it was found in.
StoredOrdinals(d) ==
    {<<"pduid_pdu", k, KeyOrdinal(k)>> : k \in DOMAIN d.pduid_pdu}
    \cup {<<"roomactiveid_roomactive", k, KeyOrdinal(k)>> :
            k \in DOMAIN d.roomactiveid_roomactive}
    \cup UNION {{<<"roomlatestid_roomlatest", k, LatestKeyOrdinal(k, room_id)>> :
                    k \in RoomLatestSlots(d, room_id)} : room_id \in Rooms}
    \cup UNION {{<<"roomuserdataid_accountdata", k,
                   u64_from_bytes(SubSeq(k, Len(UserdataPrefix(s[1], s[2])) + 1,
                                         Len(UserdataPrefix(s[1], s[2])) + U64Bytes))>> :
                    k \in {x \in DOMAIN d.roomuserdataid_accountdata :
                              starts_with(x, UserdataPrefix(s[1], s[2]))}} :
                s \in UserdataScopes \X Users}

\* The calls that hold an ordinal they have not written yet.
Holding == {c \in Callers : calls[c].pc = "insert"}

\* C11: the ordinals drawn, in the order of the draws, are strictly
\* increasing; no two calls hold the same ordinal; every ordinal in a stored
\* key was drawn, and no two keys carry the same ordinal.
C11_OrdinalsStrictlyIncrease ==
    /\ \A i, j \in 1..Len(drawn) : i < j => drawn[i] < drawn[j]
    /\ \A c, o \in Holding : c # o => calls[c].index # calls[o].index
    /\ \A c \in Holding : \E i \in 1..Len(drawn) : drawn[i] = calls[c].index
    /\ \A x \in StoredOrdinals(db) :
            /\ \E i \in 1..Len(drawn) : drawn[i] = x[3]
            /\ \A c \in Holding : calls[c].index # x[3]
            /\ \A y \in StoredOrdinals(db) : y[3] = x[3] => y = x

\* C11 witness: three calls of three different operations have drawn the
\* ordinals 255, 256 and 257; the one that drew first has not written yet,
\* while a later one has.
C11_Witness ==
    /\ drawn = <<Delim, Delim + 1, Delim + 2>>
    /\ \E c \in Holding : calls[c].index = Delim
    /\ \E x \in StoredOrdinals(db) : x[3] > Delim
    /\ \E c, o \in Holding : calls[c].op # calls[o].op

\* C21 as claimed: a roomactive_add removes no marker whose timeout has not
\* elapsed, and no marker of another room.
C21_AddKeepsUnexpired ==
    [][last'.op = "roomactive_add" =>
        \A k \in DOMAIN db.roomactiveid_roomactive :
            \/ /\ ActiveKeyRoom(k) = last'.room_id
               /\ Elapsed(ActiveKeyTimeout(k), now)
            \/ /\ k \in DOMAIN db'.roomactiveid_roomactive
               /\ db'.roomactiveid_roomactive[k] = db.roomactiveid_roomactive[k]]_vars

\* ------------------------------------------------- vocabulary: range scans
\* The PDUs stored under a set of log keys, by ascending ordinal.
RECURSIVE PdusAscending(_, _)
PdusAscending(d, S) ==
    IF S = {} THEN <<>>
    ELSE LET m == CHOOSE x \in S : \A y \in S : KeyOrdinal(x) <= KeyOrdinal(y)
         IN  <<d.pduid_pdu[m]>> \o PdusAscending(d, S \ {m})

Reverse(s) == [i \in 1..Len(s) |-> s[Len(s) + 1 - i]]

Min(a, b) == IF a <= b THEN a ELSE b

\* The caps a caller of pdus_until passes.
ScanMaxes == {0, 1, 2, UnboundedMax}

\* The ordinals a scan is asked for: those within MaxOps + 1 of either end of
\* the range 0..last_pdu_index + 1, which includes every ordinal a key of the
\* model holds, its neighbours, and 0xff.
ScanOrdinals(d) ==
    {o \in 0..(last_pdu_index(d) + 1) :
        o <= MaxOps + 1 \/ o + MaxOps + 1 >= last_pdu_index(d)}

\* C22: for every room, ordinal o and cap max, pdus_since(room, o) is the
\* list of the room's PDUs with ordinal > o in ascending order, and
\* pdus_until(room, o, max) is the first min(max, count) of the room's PDUs
\* with ordinal < o in descending order; no PDU of another room is returned.
C22_ScansExact ==
    \A room_id \in Rooms : \A o \in ScanOrdinals(db) :
        LET after == {k \in RoomLogKeys(db, room_id) : KeyOrdinal(k) > o}
            before == {k \in RoomLogKeys(db, room_id) : KeyOrdinal(k) < o}
            descending == Reverse(PdusAscending(db, before))
        IN  /\ pdus_since(db, room_id, o) = PdusAscending(db, after)
            /\ \A i \in 1..Len(pdus_since(db, room_id, o)) :
                    pdus_since(db, room_id, o)[i].room_id = room_id
            /\ \A max \in ScanMaxes :
                    /\ pdus_until(db, room_id, o, max) =
                            SubSeq(descending, 1, Min(max, Len(descending)))
                    /\ \A i \in 1..Len(pdus_until(db, room_id, o, max)) :
                            pdus_until(db, room_id, o, max)[i].room_id = room_id

\* C22 witness: room "!r" holds the PDUs of ordinals 255 and 257 and room
\* "!rx" the one of ordinal 256, so a capped pdus_until("!r", 257, 1) and a
\* pdus_since("!r", 255) each return one PDU and stop next to the other room.
C22_Witness ==
    /\ {KeyOrdinal(k) : k \in RoomLogKeys(db, RoomR)} = {Delim, Delim + 2}
    /\ {KeyOrdinal(k) : k \in RoomLogKeys(db, RoomRx)} = {Delim + 1}
    /\ Len(pdus_until(db, RoomR, Delim + 2, 1)) = 1
    /\ Len(pdus_since(db, RoomR, Delim)) = 1

\* ------------------------------------ pdu_append, one store operation at a time
\* Another append to the room is in flight.
AppendInFlight(c, room_id) ==
    \E o \in Callers \ {c} :
        /\ calls[o].op = "pdu_append"
        /\ calls[o].room_id = room_id

\* Mutant: the leaves of every room are cleared.
leaves_clear_all(d, room_id) ==
    [d EXCEPT !.roomid_pduleaves = [r \in DOMAIN @ |-> <<>>]]

\* The two store operations of pdu_leaves_replace.
leaves_clear(d, room_id) ==
    [d EXCEPT !.roomid_pduleaves = multi_clear(@, room_id)]

leaves_add(d, room_id, event_id) ==
    [d EXCEPT !.roomid_pduleaves = multi_add(@, room_id, event_id)]

\* The call begins with "Is the event authorized?"; an unauthorized event
\* returns None at once.  `exclusive` tells whether the callers serialize the
\* appends to one room.
StepAppendStart(c, rooms, inputs, exclusive) ==
    \E room_id \in rooms, in \in inputs :
        /\ calls[c].pc = "idle"
        /\ CanStart
        /\ exclusive => ~AppendInFlight(c, room_id)
        /\ is_authorized(db, room_id, UserA, in[1], in[4])
        /\ calls' = [calls EXCEPT ![c] =
                [pc |-> "leaves", op |-> "pdu_append", room_id |-> room_id,
                 user_id |-> UserA, event |-> Some([in |-> in]),
                 current |-> None, index |-> 0]]
        /\ raced' = IF AppendInFlight(c, room_id) THEN raced \cup {room_id}
                    ELSE raced
        /\ UNCHANGED <<db, now, last, ac, drawn, serialized, appended>>

\* let prev_events = self.pdu_leaves_get(&room_id).
StepLeavesGet(c) ==
    /\ calls[c].pc = "leaves"
    /\ calls' = [calls EXCEPT
            ![c].pc = "build",
            ![c].event = Some([in |-> Unwrap(@).in,
                               prev_events |-> pdu_leaves_get(db, calls[c].room_id)])]
    /\ UNCHANGED <<db, now, last, ac, drawn, serialized, appended, raced>>

\* The depth from pdu_get of every prev_event, prev_content from room_state,
\* the event id and the signature.  When a prev_event is not stored,
\* .expect("pdu in prev_events is valid") panics and the call ends.
StepBuild(c) ==
    /\ calls[c].pc = "build"
    /\ LET e == Unwrap(calls[c].event)
           stored == \A i \in 1..Len(e.prev_events) :
                        IsSome(pdu_get(db, e.prev_events[i]))
       IN  IF ~stored
           THEN /\ calls' = [calls EXCEPT ![c] = CallIdle]
                /\ UNCHANGED appended
           ELSE LET pdu0 == pdu_build_from(db, now, calls[c].room_id,
                                           calls[c].user_id, e.in[1], e.in[2],
                                           e.in[3], e.in[4], e.prev_events)
                    pdu == [pdu0 EXCEPT !.event_id =
                                Unwrap(pdu_event_id(pdu0, CryptoOk))]
                IN  /\ calls' = [calls EXCEPT
                            ![c].pc = "clear",
                            ![c].event = Some([pdu |-> pdu,
                                pdu_json |-> Unwrap(pdu_sign(pdu, CryptoOk))])]
                    /\ appended' = [appended EXCEPT ![calls[c].room_id] =
                                        Append(@, pdu.event_id)]
    /\ UNCHANGED <<db, now, last, ac, drawn, serialized, raced>>

\* roomid_pduleaves.clear(room_id).
StepLeavesClear(c) ==
    /\ calls[c].pc = "clear"
    /\ db' = leaves_clear(db, calls[c].room_id)
    /\ calls' = [calls EXCEPT ![c].pc = "add"]
    /\ UNCHANGED <<now, last, ac, drawn, serialized, appended, raced>>

\* roomid_pduleaves.add(room_id, event_id).
StepLeavesAdd(c) ==
    /\ calls[c].pc = "add"
    /\ db' = leaves_add(db, calls[c].room_id, Unwrap(calls[c].event).pdu.event_id)
    /\ calls' = [calls EXCEPT ![c].pc = "draw"]
    /\ UNCHANGED <<now, last, ac, drawn, serialized, appended, raced>>

\* pduid_pdu.insert(pdu_id, pdu_json).
StepInsertPdu(c) ==
    /\ calls[c].pc = "insert"
    /\ calls[c].op = "pdu_append"
    /\ db' = [db EXCEPT !.pduid_pdu =
                tree_insert(@, RoomPrefix(calls[c].room_id)
                                 \o to_be_bytes(calls[c].index),
                            Unwrap(calls[c].event).pdu_json)]
    /\ calls' = [calls EXCEPT ![c].pc = "eventid"]
    /\ UNCHANGED <<now, last, ac, drawn, serialized, appended, raced>>

\* eventid_pduid.insert(event_id, pdu_id).
StepInsertEventId(c) ==
    /\ calls[c].pc = "eventid"
    /\ db' = [db EXCEPT !.eventid_pduid =
                tree_insert(@, Unwrap(calls[c].event).pdu.event_id,
                            RoomPrefix(calls[c].room_id)
                                \o to_be_bytes(calls[c].index))]
    /\ calls' = [calls EXCEPT ![c].pc = "state"]
    /\ UNCHANGED <<now, last, ac, drawn, serialized, appended, raced>>

\* roomstateid_pdu.insert(..) when the event has a state_key.
StepInsertState(c) ==
    /\ calls[c].pc = "state"
    /\ LET pdu == Unwrap(calls[c].event).pdu
       IN  db' = IF IsSome(pdu.state_key)
                 THEN [db EXCEPT !.roomstateid_pdu =
                        tree_insert(@, RoomPrefix(pdu.room_id) \o KindBytes(pdu.kind)
                                         \o <<Delim>> \o Unwrap(pdu.state_key),
                                    Unwrap(calls[c].event).pdu_json)]
                 ELSE db
    /\ calls' = [calls EXCEPT ![c].pc = "read"]
    /\ UNCHANGED <<now, last, ac, drawn, serialized, appended, raced>>

\* self.room_read_set(&room_id, &sender, &event_id); the call returns.
StepReadSet(c) ==
    /\ calls[c].pc = "read"
    /\ db' = room_read_set(db, calls[c].room_id, calls[c].user_id,
                           Unwrap(calls[c].event).pdu.event_id).db
    /\ calls' = [calls EXCEPT ![c] = CallIdle]
    /\ UNCHANGED <<now, last, ac, drawn, serialized, appended, raced>>

\* Two callers; the appends to one room are serialized, those to different
\* rooms are not.
AppendCallers == {"c1", "c2"}

ParallelStart(c) == StepAppendStart(c, Rooms, StoreInputs, TRUE)

NextParallel ==
    \E c \in AppendCallers :
        \/ ParallelStart(c)
        \/ StepLeavesGet(c)
        \/ StepBuild(c)
        \/ StepLeavesClear(c)
        \/ StepLeavesAdd(c)
        \/ CallDraw(c)
        \/ StepInsertPdu(c)
        \/ StepInsertEventId(c)
        \/ StepInsertState(c)
        \/ StepReadSet(c)

SpecParallel == Init /\ [][NextParallel]_vars

\* The stored PDU of an event id.
PduOf(d, event_id) == Unwrap(pdu_get(d, event_id))

\* C23: once all calls have finished, each room's frontier is the id of the
\* room's last append; the room's log is its own appends in their order; and
\* each PDU's depth is one more than that of its predecessor in the room.
C23_RoomsIndependent ==
    Quiescent =>
        \A room_id \in Rooms :
            LET ids == appended[room_id]
            IN  /\ pdu_leaves_get(db, room_id) =
                        (IF ids = <<>> THEN <<>> ELSE <<ids[Len(ids)]>>)
                /\ pdus_all(db, room_id) = [i \in 1..Len(ids) |-> PduOf(db, ids[i])]
                /\ \A i \in 1..Len(ids) :
                        /\ PduOf(db, ids[i]).room_id = room_id
                        /\ PduOf(db, ids[i]).depth =
                                (IF i = 1 THEN 1 ELSE PduOf(db, ids[i - 1]).depth + 1)

\* C23 witness: all calls have finished; room "!r" holds two PDUs, and the
\* one PDU of room "!rx" drew its ordinal between theirs.
C23_Witness ==
    /\ Quiescent
    /\ Len(appended[RoomR]) = 2
    /\ Len(appended[RoomRx]) = 1
    /\ Len(drawn) = 3
    /\ pdu_get_count(db, appended[RoomRx][1]) = Some(drawn[2])

\* -------------------------------------- appends to one room, not serialized
SameRoomStart(c) == StepAppendStart(c, {RoomR}, StoreInputs, FALSE)

NextSameRoom ==
    \E c \in AppendCallers :
        \/ SameRoomStart(c)
        \/ StepLeavesGet(c)
        \/ StepBuild(c)
        \/ StepLeavesClear(c)
        \/ StepLeavesAdd(c)
        \/ CallDraw(c)
        \/ StepInsertPdu(c)
        \/ StepInsertEventId(c)
        \/ StepInsertState(c)
        \/ StepReadSet(c)

SpecSameRoom == Init /\ [][NextSameRoom]_vars

\* A stored PDU of the room that is neither in the frontier nor among the
\* prev_events of a stored PDU.
LostLeaf(d, room_id) ==
    \E k \in RoomLogKeys(d, room_id) :
        /\ \A i \in 1..Len(pdu_leaves_get(d, room_id)) :
                pdu_leaves_get(d, room_id)[i] # d.pduid_pdu[k].event_id
        /\ \A o \in DOMAIN d.pduid_pdu :
                \A i \in 1..Len(d.pduid_pdu[o].prev_events) :
                    d.pduid_pdu[o].prev_events[i] # d.pduid_pdu[k].event_id

\* Two stored PDUs of the room with the same depth and the same prev_events.
SameDepth(d, room_id) ==
    \E k, o \in RoomLogKeys(d, room_id) :
        /\ k # o
        /\ d.pduid_pdu[k].depth = d.pduid_pdu[o].depth
        /\ d.pduid_pdu[k].prev_events = d.pduid_pdu[o].prev_events

\* C24: the frontier of a room is corrupted, by a lost leaf or by two events
\* of one depth and the same prev_events, only where two appends to the room
\* were in flight at once; C24_Witness is such a state.
C24_CorruptionNeedsRace ==
    Quiescent =>
        \A room_id \in Rooms :
            LostLeaf(db, room_id) \/ SameDepth(db, room_id) => room_id \in raced

\* C24 witness: two appends to room "!r" have finished; one of the two
\* events is a lost leaf, and both carry the same depth and prev_events.
C24_Witness ==
    /\ Quiescent
    /\ Len(drawn) = 2
    /\ Cardinality(RoomLogKeys(db, RoomR)) = 2
    /\ LostLeaf(db, RoomR)
    /\ SameDepth(db, RoomR)

\* C25 as claimed: in every state, between the store operations of an append
\* as well, every event id in a room's frontier is resolved by pdu_get.
C25_FrontierResolvable ==
    \A room_id \in Rooms :
        \A i \in 1..Len(pdu_leaves_get(db, room_id)) :
            IsSome(pdu_get(db, pdu_leaves_get(db, room_id)[i]))

\* ---------------------------------------------------- the incremental reader
\* A reader takes its token from last_pdu_index() and sees what the scans of
\* the rooms return at that moment.
SyncToken ==
    /\ last.op # "sync"
    /\ last' = [op |-> "sync", token |-> last_pdu_index(db),
                visible |-> [room_id \in Rooms |-> SeqToSet(pdus_all(db, room_id))]]
    /\ UNCHANGED <<db, now, ac, race>>

NextSync == NextParallel \/ SyncToken

SpecSync == Init /\ [][NextSync]_vars

\* C26 as claimed: every PDU of a room that the reader did not see when it
\* took the token T is returned by a later pdus_since(room, T).
C26_ReaderMissesNothing ==
    last.op = "sync" =>
        \A room_id \in Rooms :
            \A pdu \in RoomLog(db, room_id) \ last.visible[room_id] :
                \E i \in 1..Len(pdus_since(db, room_id, last.token)) :
                    pdus_since(db, room_id, last.token)[i] = pdu

\* C27 as claimed: an ordinal returned by room_read_get(room, user) is the
\* ordinal of a PDU stored in that room.
C27_CursorInOwnRoom ==
    \A room_id \in Rooms, user_id \in Users :
        LET count == room_read_get(db, room_id, user_id)
        IN  IsSome(count) =>
                \E k \in RoomLogKeys(db, room_id) : KeyOrdinal(k) = Unwrap(count)

\* ------------------------------------------------------------- membership
\* The membership indexes are multi-value trees keyed by the id bytes the
\* caller passes, a user id or a room id.

\* MultiValue::remove_value(id, value): removes the first value stored under
\* `id` that equals `value`.
multi_remove_value(mv, id, value) ==
    LET vs == mv[id]
        hits == {i \in 1..Len(vs) : vs[i] = value}
    IN  IF hits = {} THEN mv
        ELSE LET m == CHOOSE i \in hits : \A j \in hits : i <= j
             IN  [mv EXCEPT ![id] = SubSeq(vs, 1, m - 1) \o SubSeq(vs, m + 1, Len(vs))]

rooms_joined(d, user_id) == multi_get_iter(d.userid_joinroomids, user_id)

rooms_invited(d, user_id) == multi_get_iter(d.userid_inviteroomids, user_id)

room_users_invited(d, room_id) == Len(multi_get_iter(d.roomid_inviteuserids, room_id))

\* The membership event, then the invitation in both indexes.
room_invite(d, time, sender, room_id, user_id) ==
    LET d1 == pdu_append(d, time, room_id, sender, RoomMember,
                         [membership |-> "invite"], None, Some(user_id)).db
        d2 == [d1 EXCEPT !.userid_inviteroomids = multi_add(@, user_id, room_id)]
    IN  [d2 EXCEPT !.roomid_inviteuserids = multi_add(@, room_id, user_id)]

\* false when the room neither exists nor is among the user's joined rooms;
\* otherwise the five index updates, with the arguments as the code passes
\* them, and the membership event.  No display name is set in the model.
room_join(d, time, room_id, user_id) ==
    IF /\ ~room_exists(d, room_id)
       /\ \A i \in 1..Len(rooms_joined(d, user_id)) :
                rooms_joined(d, user_id)[i] # room_id
    THEN [db |-> d, ret |-> FALSE]
    ELSE LET d1 == [d EXCEPT !.userid_joinroomids = multi_add(@, user_id, room_id)]
             d2 == [d1 EXCEPT !.roomid_joinuserids = multi_add(@, room_id, user_id)]
             d3 == [d2 EXCEPT !.userid_inviteroomids =
                        multi_remove_value(@, user_id, room_id)]
             d4 == [d3 EXCEPT !.roomid_inviteuserids =
                        multi_remove_value(@, user_id, room_id)]
             d5 == [d4 EXCEPT !.userid_leftroomids =
                        multi_remove_value(@, user_id, room_id)]
         IN  [db |-> pdu_append(d5, time, room_id, user_id, RoomMember,
                                [membership |-> "join"], None, Some(user_id)).db,
              ret |-> TRUE]

\* The membership event, then the five index updates, with the arguments as
\* the code passes them.
room_leave(d, time, sender, room_id, user_id) ==
    LET d0 == pdu_append(d, time, room_id, sender, RoomMember,
                         [membership |-> "leave"], None, Some(user_id)).db
        d1 == [d0 EXCEPT !.userid_inviteroomids =
                    multi_remove_value(@, user_id, room_id)]
        d2 == [d1 EXCEPT !.roomid_inviteuserids =
                    multi_remove_value(@, user_id, room_id)]
        d3 == [d2 EXCEPT !.userid_joinroomids =
                    multi_remove_value(@, user_id, room_id)]
        d4 == [d3 EXCEPT !.roomid_joinuserids =
                    multi_remove_value(@, room_id, user_id)]
    IN  [d4 EXCEPT !.userid_leftroomids = multi_add(@, user_id, room_id)]

RoomInvite ==
    \E room_id \in Rooms, user_id \in Users :
        /\ CanDraw(db)
        /\ db' = room_invite(db, now, UserA, room_id, user_id)
        /\ last' = [op |-> "room_invite", room_id |-> room_id, user_id |-> user_id]
        /\ UNCHANGED <<now, ac, race>>

RoomJoin ==
    \E room_id \in Rooms, user_id \in Users :
        /\ CanDraw(db)
        /\ LET r == room_join(db, now, room_id, user_id)
           IN  /\ db' = r.db
               /\ last' = [op |-> "room_join", room_id |-> room_id,
                           user_id |-> user_id, ret |-> r.ret]
        /\ UNCHANGED <<now, ac, race>>

RoomLeave ==
    \E room_id \in Rooms, user_id \in Users :
        /\ CanDraw(db)
        /\ db' = room_leave(db, now, UserA, room_id, user_id)
        /\ last' = [op |-> "room_leave", room_id |-> room_id, user_id |-> user_id]
        /\ UNCHANGED <<now, ac, race>>

NextMember == RoomInvite \/ RoomJoin \/ RoomLeave

SpecMember == Init /\ [][NextMember]_vars

\* C28 as claimed: room R is in rooms_invited(U) exactly when U is among the
\* users room_users_invited(R) counts.
C28_InviteIndexesAgree ==
    \A room_id \in Rooms, user_id \in Users :
        (\E i \in 1..Len(rooms_invited(db, user_id)) :
            rooms_invited(db, user_id)[i] = room_id)
        <=> (\E i \in 1..room_users_invited(db, room_id) :
                multi_get_iter(db.roomid_inviteuserids, room_id)[i] = user_id)

====
